---- MODULE Spec2Model ----
(***************************************************************************)
(* A model of iast's pattern matching and rule rewriting (iast/pattern.py) *)
(* on top of its node transformers (iast/visitor.py).                      *)
(*                                                                         *)
(* A Python value is a record [k, t, v, s, f]:                             *)
(*   k = "node": an AST instance of class t with field values f            *)
(*   k = "seq" : a tuple with items f                                      *)
(*   k = "int" : the integer v                                             *)
(*   k = "str" : the string whose characters are s                         *)
(*   k = "none": None                                                      *)
(*   k = "notimpl": NotImplemented                                         *)
(* Struct equality is structural, so Python's == is record equality.       *)
(***************************************************************************)
EXTENDS Integers, Sequences, FiniteSets, TLC

VARIABLES
    src1, src2,     \* the two source trees handed to PatMaker
    tree1, tree2,   \* raw_match's arguments
    eqs,            \* raw_match's worklist, a list of (lhs, rhs)
    result,         \* raw_match's bindings, a dict from variable id to tree
    pc,             \* where the matching run stands
    failure,        \* the kind of MatchFailure raised, "" if none
    rw_tree,        \* PatternTransformer: the input tree
    rw_rules,       \* PatternTransformer: patrepls
    rw_out,         \* PatternTransformer: the value process() returned
    rw_log,         \* PatternTransformer: the calls made, in order
    rw_pc,          \* where the rewriting run stands
    heap,           \* the objects: AST instances and tuples
    vroot,          \* the tree the visitors are run on, a value
    trav,           \* the visitors, each with its call stack
    gen,            \* nodes_from_asdl: the grammar, the importer's dicts, lang
    made,           \* the construction of a node of a typed class
    dumped,         \* dump: the tree and the text
    tmpl,           \* Templater: the tree, the rules and fix's loop
    expanded        \* VarExpander: the tree, the mapping and the result

vars == <<src1, src2, tree1, tree2, eqs, result, pc, failure,
          rw_tree, rw_rules, rw_out, rw_log, rw_pc, heap, vroot, trav,
          gen, made, dumped, tmpl, expanded>>

matchVars == <<src1, src2, tree1, tree2, eqs, result, pc, failure>>
rewriteVars == <<rw_tree, rw_rules, rw_out, rw_log, rw_pc>>
visitVars == <<heap, vroot, trav>>
toolVars == <<gen, made, dumped, tmpl, expanded>>

----------------------------------------------------------------------------
(* Values *)

IntV(n) == [k |-> "int", t |-> "", v |-> n, s |-> <<>>, f |-> <<>>]
StrV(cs) == [k |-> "str", t |-> "", v |-> 0, s |-> cs, f |-> <<>>]
NoneV == [k |-> "none", t |-> "", v |-> 0, s |-> <<>>, f |-> <<>>]
NotImplementedV == [k |-> "notimpl", t |-> "", v |-> 0, s |-> <<>>, f |-> <<>>]
Tuple(items) == [k |-> "seq", t |-> "", v |-> 0, s |-> <<>>, f |-> items]
Node(cls, fields) == [k |-> "node", t |-> cls, v |-> 0, s |-> <<>>, f |-> fields]

IsAST(x) == x.k = "node"
IsTuple(x) == x.k = "seq"
IsNone(x) == x.k = "none"

\* class PatVar(pattern): _fields = ('id',)
PatVar(id) == Node("PatVar", <<StrV(id)>>)
IsPatVar(x) == IsAST(x) /\ x.t = "PatVar"
PatVarId(x) == x.f[1].s

\* The node classes of the Python grammar the tests build trees from.
Num(n) == Node("Num", <<n>>)
Load == Node("Load", <<>>)
Name(id) == Node("Name", <<StrV(id), Load>>)
NameId(x) == x.f[1].s
Add == Node("Add", <<>>)
Mult == Node("Mult", <<>>)
BinOp(l, op, r) == Node("BinOp", <<l, op, r>>)
Module(body) == Node("Module", <<body>>)

\* str(i) for the indices the wildcard generator reaches
Digits == <<"0", "1", "2", "3", "4", "5", "6", "7", "8", "9">>
StrOfInt(i) == <<Digits[i + 1]>>

\* id.startswith(prefix)
StartsWith(id, prefix) ==
    /\ Len(id) >= Len(prefix)
    /\ SubSeq(id, 1, Len(prefix)) = prefix

is_wildname(id) == StartsWith(id, <<"_", "_">>)

EmptyDict == [x \in {} |-> NoneV]
DictSet(d, key, val) == [x \in (DOMAIN d) \cup {key} |-> IF x = key THEN val ELSE d[x]]

----------------------------------------------------------------------------
(* NodeTransformer, for the subclasses VarExpander and PatMaker.  A        *)
(* transformer is a record h with its class h.cls and its attributes; st   *)
(* is the state the traversal threads through (PatMaker's generator).  A   *)
(* visit returns [val, same, st]: the value, whether it is the very object *)
(* that was given, and the state afterwards.                               *)

VarExpander(mapping) == [cls |-> "VarExpander", mapping |-> mapping]
PatMaker == [cls |-> "PatMaker", mapping |-> EmptyDict]

\* getattr(self, 'visit_' + node.__class__.__name__, ...) finds a handler
HasHandler(h, cls) ==
    \/ h.cls = "VarExpander" /\ cls = "PatVar"
    \/ h.cls = "PatMaker" /\ cls = "Name"

\* VarExpander.visit_PatVar: self.mapping.get(node.id, None)
VarExpander_visit_PatVar(h, st, node) ==
    IF PatVarId(node) \in DOMAIN h.mapping
    THEN [val |-> h.mapping[PatVarId(node)], same |-> FALSE, st |-> st]
    ELSE [val |-> NoneV, same |-> FALSE, st |-> st]

\* PatMaker.visit_Name; st is the next index of self.wildname
PatMaker_visit_Name(h, st, node) ==
    IF NameId(node) = <<"_">>
    THEN [val |-> PatVar(<<"_", "_">> \o StrOfInt(st)), same |-> FALSE, st |-> st + 1]
    ELSE IF StartsWith(NameId(node), <<"_">>)
    THEN [val |-> PatVar(NameId(node)), same |-> FALSE, st |-> st]
    ELSE [val |-> NoneV, same |-> FALSE, st |-> st]

CallHandler(h, st, node) ==
    IF h.cls = "VarExpander"
    THEN VarExpander_visit_PatVar(h, st, node)
    ELSE PatMaker_visit_Name(h, st, node)

\* new_seq after the loop of seq_visit: a tuple result is spliced in
\* (new_seq.extend), any other is appended
RECURSIVE new_seq_of(_, _)
new_seq_of(results, n) ==
    IF n = 0 THEN <<>>
    ELSE IF IsTuple(results[n])
    THEN new_seq_of(results, n - 1) \o results[n].f
    ELSE Append(new_seq_of(results, n - 1), results[n])

\* the results of a loop over children, with the result of one more visit:
\* the values, which of them are the very object given, the state
children_add(before, visited) ==
    [vals |-> Append(before.vals, visited.val),
     sames |-> Append(before.sames, visited.same),
     st |-> visited.st]

\* seq_visit after its loop: "if changed: return tuple(new_seq)"
seq_result(seq, done) ==
    IF \E i \in 1..Len(seq.f) : ~done.sames[i]
    THEN [val |-> Tuple(new_seq_of(done.vals, Len(done.vals))),
          same |-> FALSE, st |-> done.st]
    ELSE [val |-> seq, same |-> TRUE, st |-> done.st]

\* generic_visit after its loop: "if len(repls) == 0: return node", else
\* node._replace(**repls)
generic_result(node, done) ==
    IF Cardinality({i \in 1..Len(node.f) : ~done.sames[i]}) = 0
    THEN [val |-> node, same |-> TRUE, st |-> done.st]
    ELSE [val |-> Node(node.t, done.vals), same |-> FALSE, st |-> done.st]

\* NodeTransformer.visit after super().visit(tree): a node's result of None
\* stands for the node itself
nochange_none(tree, visited) ==
    IF IsAST(tree) /\ IsNone(visited.val)
    THEN [val |-> tree, same |-> TRUE, st |-> visited.st]
    ELSE visited

RECURSIVE NodeTransformer_visit(_, _, _)
RECURSIVE NodeTransformer_children(_, _, _, _)

\* "result = self.visit(item)" on item n, after the loop over the items
\* before it
NodeTransformer_child(h, items, n, before) ==
    children_add(before, NodeTransformer_visit(h, before.st, items[n]))

\* the loops of seq_visit and generic_visit over the first n items
NodeTransformer_children(h, st, items, n) ==
    IF n = 0
    THEN [vals |-> <<>>, sames |-> <<>>, st |-> st]
    ELSE NodeTransformer_child(h, items, n,
                               NodeTransformer_children(h, st, items, n - 1))

\* NodeTransformer.seq_visit
NodeTransformer_seq_visit(h, st, seq) ==
    seq_result(seq, NodeTransformer_children(h, st, seq.f, Len(seq.f)))

\* NodeTransformer.generic_visit
NodeTransformer_generic_visit(h, st, node) ==
    generic_result(node, NodeTransformer_children(h, st, node.f, Len(node.f)))

\* NodeVisitor.node_visit
NodeTransformer_node_visit(h, st, node) ==
    IF HasHandler(h, node.t)
    THEN CallHandler(h, st, node)
    ELSE NodeTransformer_generic_visit(h, st, node)

\* NodeVisitor.visit
NodeVisitor_visit(h, st, tree) ==
    IF IsAST(tree) THEN NodeTransformer_node_visit(h, st, tree)
    ELSE IF IsTuple(tree) THEN NodeTransformer_seq_visit(h, st, tree)
    ELSE [val |-> tree, same |-> TRUE, st |-> st]

\* NodeTransformer.visit
NodeTransformer_visit(h, st, tree) ==
    nochange_none(tree, NodeVisitor_visit(h, st, tree))

\* VarExpander.run(tree, mapping) / trans.process(tree)
VarExpander_process(mapping, tree) ==
    NodeTransformer_visit(VarExpander(mapping), 0, tree).val

\* PatMaker.run(tree): a fresh PatMaker, whose generator starts at 0
PatMaker_run(tree) == NodeTransformer_visit(PatMaker, 0, tree).val

----------------------------------------------------------------------------
(* OccChecker, a NodeVisitor *)

RECURSIVE OccChecker_visit(_, _)
OccChecker_visit(var, tree) ==
    IF IsAST(tree)
    THEN IF IsPatVar(tree)
         THEN PatVarId(tree) = var
         ELSE \E i \in 1..Len(tree.f) : OccChecker_visit(var, tree.f[i])
    ELSE IF IsTuple(tree)
    THEN \E i \in 1..Len(tree.f) : OccChecker_visit(var, tree.f[i])
    ELSE FALSE

\* an occurs-check that looks at the root of the tree only
OccChecker_root_only(tree, var) == IsPatVar(tree) /\ PatVarId(tree) = var

\* OccChecker.run(tree, var)
OccChecker_run(tree, var) == OccChecker_visit(var, tree)

----------------------------------------------------------------------------
(* match_step and raw_match *)

Eq(l, r) == [lhs |-> l, rhs |-> r]

Failed(kind) == [ok |-> FALSE, kind |-> kind, eqs |-> <<>>, bindings |-> <<>>]
Step(new_eqs, bindings) ==
    [ok |-> TRUE, kind |-> "", eqs |-> new_eqs, bindings |-> bindings]

\* a comparison of constants turned around
constants_differ(lhs, rhs) == lhs # rhs

\* "if lhs != rhs: raise MatchFailure" passes: the constants are equal
constants_match(lhs, rhs) == lhs = rhs

\* match_step after the flip: the list of equations and the bindings (a
\* list of <<var, repl>>, empty or with one entry), or the MatchFailure
match_step_flipped(lhs, rhs) ==
    IF IsPatVar(lhs)
    THEN IF ~(IsPatVar(rhs) /\ PatVarId(rhs) = PatVarId(lhs))
         THEN IF OccChecker_run(rhs, PatVarId(lhs))
              THEN Failed("circular")
              ELSE Step(<<>>, <<<<PatVarId(lhs), rhs>>>>)
         ELSE Step(<<>>, <<>>)
    ELSE IF IsAST(lhs)
    THEN IF ~IsAST(rhs) THEN Failed("node/non-node")
         ELSE IF lhs.t # rhs.t THEN Failed("node/node")
         ELSE Step([i \in 1..Len(lhs.f) |-> Eq(lhs.f[i], rhs.f[i])], <<>>)
    ELSE IF IsTuple(lhs)
    THEN IF ~IsTuple(rhs) THEN Failed("sequence/non-sequence")
         ELSE IF Len(lhs.f) # Len(rhs.f) THEN Failed("lengths")
         ELSE Step([i \in 1..Len(lhs.f) |-> Eq(lhs.f[i], rhs.f[i])], <<>>)
    ELSE IF ~constants_match(lhs, rhs) THEN Failed("constant")
         ELSE Step(<<>>, <<>>)

match_step(lhs, rhs) ==
    IF ~IsPatVar(lhs) /\ IsPatVar(rhs)
    THEN match_step_flipped(rhs, lhs)
    ELSE match_step_flipped(lhs, rhs)

\* raw_match.bindvar: the loop's bindings and worklist afterwards
bindvar(res, es, var, repl) ==
    LET res1 == DictSet(res, var, repl)
        trans == [x \in {var} |-> repl]
    IN  [ok |-> TRUE, kind |-> "",
         result |-> [x \in DOMAIN res1 |-> VarExpander_process(trans, res1[x])],
         eqs |-> [i \in 1..Len(es) |->
                    Eq(VarExpander_process(trans, es[i].lhs),
                       VarExpander_process(trans, es[i].rhs))]]

\* a worklist that keeps the equation it hands out
eqs_peek(es) == es

\* eqs.pop(): the worklist without its last equation
eqs_pop(es) == SubSeq(es, 1, Len(es) - 1)

\* the loop body after match_step: the new equations join the worklist,
\* the binding, if any, is made
loop_after_step(rest, res, ms) ==
    IF ~ms.ok
    THEN [ok |-> FALSE, kind |-> ms.kind, eqs |-> rest, result |-> res]
    ELSE IF Len(ms.bindings) = 0
    THEN [ok |-> TRUE, kind |-> "", eqs |-> rest \o ms.eqs, result |-> res]
    ELSE bindvar(res, rest \o ms.eqs, ms.bindings[1][1], ms.bindings[1][2])

\* One iteration of raw_match's while loop, from worklist es (not empty)
\* and bindings res
loop_body(es, res) ==
    loop_after_step(eqs_pop(es), res,
                    match_step(es[Len(es)].lhs, es[Len(es)].rhs))

\* raw_match's last loop: the wildcard bindings removed
remove_wildcards(res) ==
    [x \in {y \in DOMAIN res : ~is_wildname(y)} |-> res[x]]

RECURSIVE raw_match_from(_, _)

\* the while loop after an iteration: on, or out with the MatchFailure
raw_match_next(n) ==
    IF n.ok THEN raw_match_from(n.eqs, n.result)
    ELSE [ok |-> FALSE, kind |-> n.kind, result |-> EmptyDict]

\* raw_match from a given worklist and bindings to its end
raw_match_from(es, res) ==
    IF Len(es) = 0
    THEN [ok |-> TRUE, kind |-> "", result |-> remove_wildcards(res)]
    ELSE raw_match_next(loop_body(es, res))

raw_match(t1, t2) == raw_match_from(<<Eq(t1, t2)>>, EmptyDict)

\* match's try/except: the mapping, or None on MatchFailure
none_on_failure(r) == [matched |-> r.ok, mapping |-> r.result]

match(t1, t2) == none_on_failure(raw_match(t1, t2))

----------------------------------------------------------------------------
(* PatternTransformer, a NodeTransformer without handlers.  log is the     *)
(* list of the calls made so far, and path the place of the visited value  *)
(* in the tree process() was given: the indices of the fields and items    *)
(* that lead to it.  A visit returns [val, same, st], st the log           *)
(* afterwards.                                                             *)

\* a (pattern, repl) pair: repl is one of the functions below, by name, or
\* the AST ast
Rule(pattern, repl, ast) == [pattern |-> pattern, repl |-> repl, ast |-> ast]

\* repl(**mapping) for the replacement functions the rules are built from;
\* normalize_repl turns an AST repl into VarExpander.run(repl, mapping)
ReplCall(rule, mapping) ==
    LET X == mapping[<<"_", "X">>].v
        Y == mapping[<<"_", "Y">>].v
    IN  CASE rule.repl = "add" -> Num(IntV(X + Y))
          [] rule.repl = "zero_left" -> IF X = 0 THEN Num(IntV(0)) ELSE NotImplementedV
          [] rule.repl = "zero_right" -> IF Y = 0 THEN Num(IntV(0)) ELSE NoneV
          [] rule.repl = "mult" -> Num(IntV(X * Y))
          [] rule.repl = "add_lt5" -> IF X < 5 THEN Num(IntV(X + Y)) ELSE NoneV
          [] rule.repl = "ast" -> VarExpander_process(mapping, rule.ast)
          [] rule.repl = "foo" ->
                IF X = 1 \/ (IsAST(mapping[<<"_", "Y">>]) /\ mapping[<<"_", "Y">>].t = "Num")
                THEN NoneV
                ELSE Num(IntV(10 * X))

\* one entry of the log of a rewriting run
LogEvent(ev, path, rule, tree, ok, val) ==
    [ev |-> ev, path |-> path, rule |-> rule, tree |-> tree, ok |-> ok, val |-> val]

\* the rules matched against the tree as it was given
matched_tree_original(tree, subresult) == tree

\* "if subresult is not None: tree = subresult": the tree the rules are
\* matched against
matched_tree(tree, subresult) == IF ~IsNone(subresult) THEN subresult ELSE tree

RECURSIVE PatternTransformer_rules(_, _, _, _, _)

\* the for loop's body after repl(**mapping): return patresult, or on to
\* the next rule
PatternTransformer_replaced(patrepls, log, path, tree, i, patresult) ==
    IF ~IsNone(patresult)
    THEN [found |-> TRUE, val |-> patresult,
          st |-> Append(log, LogEvent("repl", path, i, tree, TRUE, patresult))]
    ELSE PatternTransformer_rules(patrepls,
             Append(log, LogEvent("repl", path, i, tree, TRUE, patresult)),
             path, tree, i + 1)

\* the for loop's body after match(pattern, tree)
PatternTransformer_matched(patrepls, log, path, tree, i, mapping) ==
    IF mapping.matched
    THEN PatternTransformer_replaced(patrepls,
             Append(log, LogEvent("match", path, i, tree, TRUE, NoneV)),
             path, tree, i, ReplCall(patrepls[i], mapping.mapping))
    ELSE PatternTransformer_rules(patrepls,
             Append(log, LogEvent("match", path, i, tree, FALSE, NoneV)),
             path, tree, i + 1)

\* PatternTransformer.visit's for loop from rule i on: found with the
\* value to return, or not found
PatternTransformer_rules(patrepls, log, path, tree, i) ==
    IF i > Len(patrepls)
    THEN [found |-> FALSE, val |-> NoneV, st |-> log]
    ELSE PatternTransformer_matched(patrepls, log, path, tree, i,
                                    match(patrepls[i].pattern, tree))

RECURSIVE PatternTransformer_visit(_, _, _, _)
RECURSIVE PatternTransformer_children(_, _, _, _, _)

\* "result = self.visit(item)" on item n: self.visit is
\* PatternTransformer.visit
PatternTransformer_child(patrepls, path, items, n, before) ==
    children_add(before,
                 PatternTransformer_visit(patrepls, before.st, Append(path, n), items[n]))

\* the loops of seq_visit and generic_visit as PatternTransformer inherits
\* them
PatternTransformer_children(patrepls, log, path, items, n) ==
    IF n = 0
    THEN [vals |-> <<>>, sames |-> <<>>, st |-> log]
    ELSE PatternTransformer_child(patrepls, path, items, n,
             PatternTransformer_children(patrepls, log, path, items, n - 1))

\* NodeVisitor.visit's dispatch after the loop over the children;
\* PatternTransformer has no handler, so node_visit comes to generic_visit
visit_result(tree, done) ==
    IF IsAST(tree) THEN generic_result(tree, done)
    ELSE IF IsTuple(tree) THEN seq_result(tree, done)
    ELSE [val |-> tree, same |-> TRUE, st |-> done.st]

\* super().visit(tree): NodeTransformer.visit
PatternTransformer_super_visit(patrepls, log, path, tree) ==
    nochange_none(tree,
        visit_result(tree,
            PatternTransformer_children(patrepls, log, path, tree.f, Len(tree.f))))

\* PatternTransformer.visit's end: patresult, or else subresult
PatternTransformer_return(path, tree, subresult, tried) ==
    IF tried.found
    THEN [val |-> tried.val, same |-> FALSE,
          st |-> Append(tried.st, LogEvent("return", path, 0, tree, TRUE, tried.val))]
    ELSE [val |-> subresult.val, same |-> subresult.same,
          st |-> Append(tried.st, LogEvent("return", path, 0, tree, TRUE, subresult.val))]

\* PatternTransformer.visit after super().visit(tree)
PatternTransformer_match(patrepls, path, tree, subresult) ==
    IF IsNone(subresult.val)
    THEN PatternTransformer_return(path, tree, subresult,
             PatternTransformer_rules(patrepls, subresult.st, path, tree, 1))
    ELSE PatternTransformer_return(path, tree, subresult,
             PatternTransformer_rules(patrepls, subresult.st, path,
                                      matched_tree(tree, subresult.val), 1))

\* PatternTransformer.visit
PatternTransformer_visit(patrepls, log, path, tree) ==
    PatternTransformer_match(patrepls, path, tree,
        PatternTransformer_super_visit(patrepls,
            Append(log, LogEvent("visit", path, 0, tree, TRUE, NoneV)), path, tree))

\* PatternTransformer.run(tree, patrepls): [val, same, st], st the log
PatternTransformer_run(tree, patrepls) ==
    PatternTransformer_visit(patrepls, <<>>, <<>>, tree)

----------------------------------------------------------------------------
(* Objects.  Where the identity of objects counts, the trees live in heap, *)
(* a list of objects: an AST instance of class t with field values f, or   *)
(* a tuple with items f.  A value is a reference to an object, by its      *)
(* place in heap, or a constant.  Python's "is" is equality of values.     *)

Ref(a) == [k |-> "ref", v |-> a, s |-> <<>>]
CNone == [k |-> "none", v |-> 0, s |-> <<>>]
CStr(cs) == [k |-> "str", v |-> 0, s |-> cs]
Const(t) == [k |-> t.k, v |-> t.v, s |-> t.s]
IsRef(x) == x.k = "ref"
Obj(k, t, f) == [k |-> k, t |-> t, f |-> f]

\* the empty tuple is one object
EmptyTupleRef == Ref(1)
EmptyHeap == <<Obj("seq", "", <<>>)>>

IsNodeRef(hp, x) == IsRef(x) /\ hp[x.v].k = "node"
IsSeqRef(hp, x) == IsRef(x) /\ hp[x.v].k = "seq"

\* a new object: [heap, val]
New(hp, obj) == [heap |-> Append(hp, obj), val |-> Ref(Len(hp) + 1)]

\* tuple(new_seq)
NewTuple(hp, items) ==
    IF Len(items) = 0
    THEN [heap |-> hp, val |-> EmptyTupleRef]
    ELSE New(hp, Obj("seq", "", items))

\* a _replace that writes the fields into the node it is called on
replace_in_place(hp, node, fields) ==
    [heap |-> [hp EXCEPT ![node.v].f = fields], val |-> node]

\* node._replace(**repls): a new instance of the node's class
Node_replace(hp, node, fields) == New(hp, Obj("node", hp[node.v].t, fields))

\* the tree t built as objects: [heap, val]
RECURSIVE Store(_, _)
RECURSIVE StoreItems(_, _, _)

store_add(before, stored) ==
    [heap |-> stored.heap, vals |-> Append(before.vals, stored.val)]

\* item n is stored once the n - 1 items before it are
StoreItem(items, n, before) ==
    IF Len(before.vals) < n
    THEN store_add(before, Store(before.heap, items[n]))
    ELSE before

StoreItems(hp, items, n) ==
    IF n = 0
    THEN [heap |-> hp, vals |-> <<>>]
    ELSE StoreItem(items, n, StoreItems(hp, items, n - 1))

store_obj(t, done) ==
    IF IsTuple(t)
    THEN NewTuple(done.heap, done.vals)
    ELSE New(done.heap, Obj("node", t.t, done.vals))

Store(hp, t) ==
    IF IsAST(t) \/ IsTuple(t)
    THEN store_obj(t, StoreItems(hp, t.f, Len(t.f)))
    ELSE [heap |-> hp, val |-> Const(t)]

\* node._fields
Fields(cls) ==
    CASE cls = "Module" -> <<"body">>
      [] cls = "Expr" -> <<"value">>
      [] cls = "Name" -> <<"id", "ctx">>
      [] cls = "Num" -> <<"n">>
      [] cls = "BinOp" -> <<"left", "op", "right">>
      [] OTHER -> <<>>

----------------------------------------------------------------------------
(* NodeVisitor, AdvNodeVisitor, NodeTransformer and AdvNodeTransformer,    *)
(* call by call.  A visitor instance is a record st: its class and         *)
(* handlers (cfg), the call stack of its methods (frames), the call being  *)
(* made or the value being returned (mode, arg, cf, ci, cpath),            *)
(* _visit_stack (vstack) and what it did so far (log).  A handler is       *)
(* named by what it does:                                                  *)
(*   "none"    return None                                                 *)
(*   "self"    return node                                                 *)
(*   "copy"    return node._replace()                                      *)
(*   "change"  if node.id == 'a': return node._replace(id='c')             *)
(*   "delete"  return ()                                                   *)
(*   "double"  return (node, node)                                         *)
(*   "generic" return self.generic_visit(node)                             *)
(*   "generic_double"  node = self.generic_visit(node);                    *)
(*                     return (node, node)                                 *)
(*   "raise"   raise ValueError                                            *)
(*   "catch"   try: return self.generic_visit(node)                        *)
(*             except ValueError: return None                              *)

IsTransformer(cfg) ==
    cfg.cls \in {"NodeTransformer", "AdvNodeTransformer", "PatternTransformer", "Substitutor"}

\* the subclasses of NodeTransformer that define visit
OverridesVisit(cfg) == cfg.cls \in {"PatternTransformer", "Substitutor"}
IsAdv(cfg) == cfg.cls \in {"AdvNodeVisitor", "AdvNodeTransformer"}

\* a handler that is never found
getattr_default(cfg, cls) == ""

\* getattr(self, 'visit_' + node.__class__.__name__, self.generic_visit):
\* the handler, "" for generic_visit
getattr_visitor(cfg, cls) ==
    IF cls \in DOMAIN cfg.handlers THEN cfg.handlers[cls] ELSE ""

Frame(fk, obj, path, h, kf) ==
    [fk |-> fk, obj |-> obj, path |-> path, i |-> 1,
     vals |-> <<>>, sames |-> <<>>, h |-> h, kf |-> kf]

\* an entry of _visit_stack: (node, field, index); "" and -1 stand for None
Entry(node, field, index) == [node |-> node, field |-> field, index |-> index]

\* an entry of the log: what was called or returned, for the value at path
\* of the tree process() was given
Event(ev, path, node, val, h, stack) ==
    [ev |-> ev, path |-> path, node |-> node, val |-> val, h |-> h, stack |-> stack]

NewVisitor(cfg) ==
    [cfg |-> cfg, mode |-> "idle", arg |-> CNone, cf |-> "", ci |-> -1, cpath |-> <<>>,
     frames |-> <<>>, vstack |-> <<>>, log |-> <<>>, out |-> CNone,
     err |-> "", runs |-> 0]

NoHandlers == [Name |-> "", Expr |-> "", Pass |-> ""]

NoVisitor ==
    NewVisitor([cls |-> "", nochange_none |-> TRUE, handlers |-> NoHandlers,
                patrepls |-> <<>>])

Top(st) == st.frames[Len(st.frames)]
Pop(frames) == SubSeq(frames, 1, Len(frames) - 1)

\* self.visit(v, _field=f, _index=i) is called
Calls(st, v, f, i, path) ==
    [st EXCEPT !.mode = "call", !.arg = v, !.cf = f, !.ci = i, !.cpath = path]

\* a method returns v
Returning(st, v) == [st EXCEPT !.mode = "return", !.arg = v]

\* the visitor is at the head of NodeVisitor.visit and NodeTransformer.visit:
\* self.visit(v) of a class that does not define visit, or super().visit(v)
InSuperVisit(st) ==
    \/ st.mode = "super"
    \/ st.mode = "call" /\ ~OverridesVisit(st.cfg)

\* the for loops of seq_visit and generic_visit at their head: the visit
\* of the next item or field value, or the end of the loop
loop_head(st, hp) ==
    LET fr == Top(st)
        obj == hp[fr.obj.v]
    IN  IF fr.i <= Len(obj.f)
        THEN IF ~IsAdv(st.cfg)
             THEN Calls(st, obj.f[fr.i], "", -1, Append(fr.path, fr.i))
             ELSE IF obj.k = "seq"
             THEN Calls(st, obj.f[fr.i], fr.kf, fr.i - 1, Append(fr.path, fr.i))
             ELSE Calls(st, obj.f[fr.i], Fields(obj.t)[fr.i], -1, Append(fr.path, fr.i))
        ELSE [st EXCEPT !.mode = "loop"]

\* generic_visit(node) is entered
generic_visit_enter(st, hp, node, path) ==
    loop_head([st EXCEPT !.frames = Append(@, Frame("loop", node, path, "", "")),
                         !.log = Append(@, Event("generic_visit", path, node, CNone, "", <<>>))],
              hp)

\* the handler h is called on node: [st, heap]
call_handler(st, hp, h, node, path) ==
    LET called == [st EXCEPT !.log = Append(@, Event("handler", path, node, CNone, h, st.vstack))]
        entered == [called EXCEPT !.frames = Append(@, Frame("handler", node, path, h, ""))]
    IN  CASE h = "none" -> [st |-> Returning(called, CNone), heap |-> hp]
          [] h = "self" -> [st |-> Returning(called, node), heap |-> hp]
          [] h = "copy" ->
                LET new == Node_replace(hp, node, hp[node.v].f)
                IN  [st |-> Returning(called, new.val), heap |-> new.heap]
          [] h = "change" ->
                IF hp[node.v].f[1] = CStr(<<"a">>)
                THEN LET new == Node_replace(hp, node,
                                    [hp[node.v].f EXCEPT ![1] = CStr(<<"c">>)])
                     IN  [st |-> Returning(called, new.val), heap |-> new.heap]
                ELSE [st |-> Returning(called, CNone), heap |-> hp]
          [] h = "delete" -> [st |-> Returning(called, EmptyTupleRef), heap |-> hp]
          [] h = "double" ->
                LET new == NewTuple(hp, <<node, node>>)
                IN  [st |-> Returning(called, new.val), heap |-> new.heap]
          [] h = "raise" ->
                [st |-> [called EXCEPT !.mode = "raise", !.err = "ValueError"], heap |-> hp]
          [] h \in {"generic", "generic_double", "catch"} ->
                [st |-> generic_visit_enter(entered, hp, node, path), heap |-> hp]

\* NodeVisitor.visit on a node, and node_visit up to the call of the
\* handler: AdvNodeVisitor's pushes the entry on _visit_stack
node_visit(st, hp) ==
    LET node == st.arg
        h == getattr_visitor(st.cfg, hp[node.v].t)
        entered ==
            [st EXCEPT !.frames = Append(@, Frame("visit", node, st.cpath, h, "")),
                       !.vstack = IF IsAdv(st.cfg)
                                  THEN Append(@, Entry(node, st.cf, st.ci))
                                  ELSE @,
                       !.log = Append(@, Event("visit", st.cpath, node, CNone, "", <<>>))]
    IN  IF h = ""
        THEN [st |-> generic_visit_enter(entered, hp, node, st.cpath), heap |-> hp]
        ELSE call_handler(entered, hp, h, node, st.cpath)

\* NodeVisitor.visit on a tuple, and seq_visit up to its first item; in
\* AdvNodeVisitor, enumerate's _index=i next to an _index in kargs is a
\* TypeError
seq_visit_enter(st, hp) ==
    LET visited == [st EXCEPT !.log = Append(@, Event("visit", st.cpath, st.arg, CNone, "", <<>>))]
    IN  IF IsAdv(st.cfg) /\ st.ci # -1 /\ Len(hp[st.arg.v].f) > 0
        THEN [visited EXCEPT !.mode = "raise", !.err = "TypeError"]
        ELSE loop_head([visited EXCEPT
                          !.frames = Append(@, Frame("loop", st.arg, st.cpath, "", st.cf))],
                       hp)

\* NodeVisitor.visit on any other value: "return tree"
visit_other(st) ==
    Returning([st EXCEPT !.log = Append(@, Event("visit", st.cpath, st.arg, CNone, "", <<>>))],
              st.arg)

\* a value as the tree it stands for: what Struct's and tuple's == compare
RECURSIVE Resolve(_, _)
Resolve(hp, x) ==
    IF IsRef(x)
    THEN [k |-> hp[x.v].k, t |-> hp[x.v].t, v |-> 0, s |-> <<>>,
          f |-> [i \in 1..Len(hp[x.v].f) |-> Resolve(hp, hp[x.v].f[i])]]
    ELSE [k |-> x.k, t |-> "", v |-> x.v, s |-> x.s, f |-> <<>>]

\* "result != item": change detected by comparing the trees
is_not_by_value(hp, a, b) == Resolve(hp, a) # Resolve(hp, b)

\* "result is not item", "result is not value"
is_not(hp, a, b) == a # b

\* the loop body after self.visit(item) returned st.arg: the result is
\* kept, and the loop goes on
loop_result(st, hp) ==
    LET fr == Top(st)
        item == hp[fr.obj.v].f[fr.i]
        kept == [fr EXCEPT !.vals = Append(@, st.arg),
                           !.sames = Append(@, ~is_not(hp, st.arg, item)),
                           !.i = @ + 1]
    IN  loop_head([st EXCEPT !.frames[Len(st.frames)] = kept], hp)

\* a new_seq that every result is appended to
new_seq_nested(hp, vals, n) == SubSeq(vals, 1, n)

\* new_seq after NodeTransformer.seq_visit's loop: a tuple result is
\* spliced in (new_seq.extend), any other is appended
RECURSIVE new_seq(_, _, _)
new_seq(hp, vals, n) ==
    IF n = 0 THEN <<>>
    ELSE IF IsSeqRef(hp, vals[n])
    THEN new_seq(hp, vals, n - 1) \o hp[vals[n].v].f
    ELSE Append(new_seq(hp, vals, n - 1), vals[n])

\* a seq_visit and a generic_visit that always build their result anew
loop_return_rebuild(cfg, hp, fr) ==
    IF ~IsTransformer(cfg)
    THEN [val |-> CNone, heap |-> hp]
    ELSE IF hp[fr.obj.v].k = "seq"
    THEN NewTuple(hp, fr.vals)
    ELSE Node_replace(hp, fr.obj, fr.vals)

\* the end of seq_visit and generic_visit: [val, heap].  NodeVisitor's
\* return nothing; NodeTransformer's return the object they were given
\* unless a result was not the item or field value
loop_return(cfg, hp, fr) ==
    IF ~IsTransformer(cfg)
    THEN [val |-> CNone, heap |-> hp]
    ELSE IF \A i \in 1..Len(fr.sames) : fr.sames[i]
    THEN [val |-> fr.obj, heap |-> hp]
    ELSE IF hp[fr.obj.v].k = "seq"
    THEN NewTuple(hp, new_seq(hp, fr.vals, Len(fr.vals)))
    ELSE Node_replace(hp, fr.obj, fr.vals)

loop_end(st, hp) ==
    LET ret == loop_return(st.cfg, hp, Top(st))
    IN  [st |-> Returning([st EXCEPT !.frames = Pop(@)], ret.val), heap |-> ret.heap]

\* the handler goes on after self.generic_visit(node) returned st.arg
handler_return(st, hp) ==
    LET fr == Top(st)
        popped == [st EXCEPT !.frames = Pop(@)]
    IN  IF fr.h = "generic_double"
        THEN LET new == NewTuple(hp, <<st.arg, st.arg>>)
             IN  [st |-> Returning(popped, new.val), heap |-> new.heap]
        ELSE [st |-> Returning(popped, st.arg), heap |-> hp]

\* a None result that is passed on as it is
nochange_off(cfg, hp, tree, res) == res

\* NodeTransformer.visit after super().visit(tree): "if self._nochange_none
\* and isinstance(tree, AST) and result is None: result = tree"
nochange(cfg, hp, tree, res) ==
    IF IsTransformer(cfg) /\ cfg.nochange_none /\ IsNodeRef(hp, tree) /\ res = CNone
    THEN tree
    ELSE res

\* self._visit_stack.pop()
stack_pop(stack) == SubSeq(stack, 1, Len(stack) - 1)

\* node_visit after the handler returned st.arg: AdvNodeVisitor's pops
\* _visit_stack; then the end of visit
visit_return(st, hp) ==
    LET fr == Top(st)
    IN  Returning([st EXCEPT !.frames = Pop(@),
                             !.vstack = IF IsAdv(st.cfg) THEN stack_pop(@) ELSE @,
                             !.log = Append(@, Event("return", fr.path, fr.obj, st.arg, fr.h, <<>>))],
                  nochange(st.cfg, hp, fr.obj, st.arg))

\* process(tree) after self.visit(tree) returned st.arg: AdvNodeVisitor's
\* asserts len(self._visit_stack) == 0
process_return(st) ==
    IF IsAdv(st.cfg) /\ Len(st.vstack) # 0
    THEN [st EXCEPT !.mode = "failed", !.err = "Visit stack unbalanced"]
    ELSE [st EXCEPT !.mode = "done", !.out = st.arg]

\* the frames that catch the exception, a ValueError
Catchers(st) == {j \in 1..Len(st.frames) :
                    /\ st.err = "ValueError"
                    /\ st.frames[j].fk = "handler"
                    /\ st.frames[j].h = "catch"}

\* an exception leaves the methods it passes through, up to the nearest
\* handler that catches it ("return None") or out of process
unwind(st) ==
    IF Catchers(st) # {}
    THEN LET j == CHOOSE c \in Catchers(st) : \A d \in Catchers(st) : d <= c
         IN  Returning([st EXCEPT !.frames = SubSeq(@, 1, j - 1), !.err = ""], CNone)
    ELSE [st EXCEPT !.frames = <<>>, !.mode = "failed"]

\* AdvNodeVisitor.process: "self._visit_stack = []"
stack_reset(cfg, stack) == IF IsAdv(cfg) THEN <<>> ELSE stack

\* process(tree) up to the call of self.visit(tree)
process_enter(st, tree) ==
    Calls([st EXCEPT !.frames = <<>>, !.log = <<>>, !.out = CNone, !.err = "",
                     !.vstack = stack_reset(st.cfg, @),
                     !.runs = @ + 1],
          tree, "", -1, <<>>)

\* PatternTransformer.visit up to super().visit(tree)
PatternTransformer_visit_enter(st) ==
    [st EXCEPT !.frames = Append(@, Frame("patvisit", st.arg, st.cpath, "", "")),
               !.mode = "super"]

\* PatternTransformer.visit's end with the objects of patresult built:
\* [st, heap]
pattern_result(st, hp, tried) ==
    IF tried.found
    THEN LET new == Store(hp, tried.val)
         IN  [st |-> Returning(st, new.val), heap |-> new.heap]
    ELSE [st |-> st, heap |-> hp]

\* PatternTransformer.visit after super().visit(tree) returned st.arg: the
\* rules are tried on the tree, or on subresult if it is not None
PatternTransformer_visit_return(st, hp) ==
    pattern_result(Returning([st EXCEPT !.frames = Pop(@)], st.arg), hp,
        PatternTransformer_rules(st.cfg.patrepls, <<>>, Top(st).path,
            Resolve(hp, matched_tree(Top(st).obj, st.arg)), 1))

\* a visit that goes on to super().visit(tree) whatever repl returned
substituted_never(st, hp, replaced) == [st |-> [st EXCEPT !.mode = "super"], heap |-> hp]

\* Substitutor.visit after self.repl(**mapping): a result of None goes on to
\* super().visit(tree)
substituted(st, hp, replaced) ==
    IF IsNone(replaced)
    THEN [st |-> [st EXCEPT !.mode = "super"], heap |-> hp]
    ELSE LET new == Store(hp, replaced)
         IN  [st |-> Returning(st, new.val), heap |-> new.heap]

\* Substitutor.visit after match(self.pattern, tree)
substitutor_matched(st, hp, mapping) ==
    IF mapping.matched
    THEN substituted(st, hp, ReplCall(st.cfg.patrepls[1], mapping.mapping))
    ELSE [st |-> [st EXCEPT !.mode = "super"], heap |-> hp]

\* Substitutor.visit, up to its return or to super().visit(tree)
Substitutor_visit(st, hp) ==
    substitutor_matched(st, hp, match(st.cfg.patrepls[1].pattern, Resolve(hp, st.arg)))

\* the next step of a visitor under way, by where it stands: [st, heap]
visitor_step(st, hp) ==
    IF st.mode = "call" /\ st.cfg.cls = "PatternTransformer"
    THEN [st |-> PatternTransformer_visit_enter(st), heap |-> hp]
    ELSE IF st.mode = "call" /\ st.cfg.cls = "Substitutor"
    THEN Substitutor_visit(st, hp)
    ELSE IF st.mode \in {"call", "super"}
    THEN IF IsNodeRef(hp, st.arg) THEN node_visit(st, hp)
         ELSE IF IsSeqRef(hp, st.arg) THEN [st |-> seq_visit_enter(st, hp), heap |-> hp]
         ELSE [st |-> visit_other(st), heap |-> hp]
    ELSE IF st.mode = "loop" THEN loop_end(st, hp)
    ELSE IF st.mode = "raise" THEN [st |-> unwind(st), heap |-> hp]
    ELSE IF Len(st.frames) = 0 THEN [st |-> process_return(st), heap |-> hp]
    ELSE IF Top(st).fk = "loop" THEN [st |-> loop_result(st, hp), heap |-> hp]
    ELSE IF Top(st).fk = "handler" THEN handler_return(st, hp)
    ELSE IF Top(st).fk = "patvisit" THEN PatternTransformer_visit_return(st, hp)
    ELSE [st |-> visit_return(st, hp), heap |-> hp]

\* a step of a visitor under way, none after the end of process
run_step(c) ==
    IF c.st.mode \in {"done", "failed"} THEN c ELSE visitor_step(c.st, c.heap)

\* a visitor under way, run to the end of process: [st, heap]
RECURSIVE run_on(_)
run_on(c) ==
    IF c.st.mode \in {"done", "failed"}
    THEN c
    ELSE run_on(run_step(run_step(run_step(run_step(
                run_step(run_step(run_step(run_step(c)))))))))

\* cls.run(tree) with nothing else going on: [st, heap]
NodeVisitor_run(cfg, hp, tree) ==
    run_on([st |-> process_enter(NewVisitor(cfg), tree), heap |-> hp])

----------------------------------------------------------------------------
(* The trees the matching runs are given *)

MaxInt == 2

Atoms ==
    {IntV(n) : n \in 1..MaxInt}
        \cup {NoneV, Name(<<"_", "X">>), Name(<<"_", "Y">>), Name(<<"_">>)}

SrcTrees ==
    Atoms
        \cup {Num(a) : a \in Atoms}
        \cup {Tuple(<<>>)}
        \cup {Tuple(<<a>>) : a \in Atoms}
        \cup {Tuple(<<a, b>>) : a \in Atoms, b \in Atoms}
        \cup {BinOp(a, Add, Num(b)) : a \in Atoms, b \in Atoms}
        \cup {Tuple(<<Module(Tuple(<<a>>)), Module(b)>>) : a \in Atoms, b \in Atoms}
        \cup {Tuple(<<Module(Tuple(<<a>>)), Module(Tuple(<<>>))>>) : a \in Atoms}
        \cup {Tuple(<<Module(Tuple(<<a>>)), Module(Tuple(<<b>>))>>) :
                a \in Atoms, b \in Atoms}

----------------------------------------------------------------------------
(* The trees and rules the rewriting runs are given *)

MaxRules == 2

PatX == PatVar(<<"_", "X">>)
PatY == PatVar(<<"_", "Y">>)
PatOp == PatVar(<<"_", "O", "p">>)

\* the rules of the tests' transformers
Rules ==
    {Rule(BinOp(Num(PatX), Add, Num(PatY)), "add", NoneV),
     Rule(BinOp(Num(PatX), Mult, Num(PatY)), "zero_left", NoneV),
     Rule(BinOp(Num(PatX), Mult, Num(PatY)), "zero_right", NoneV),
     Rule(BinOp(Num(PatX), Mult, Num(PatY)), "mult", NoneV),
     Rule(BinOp(Num(PatX), PatOp, Num(PatY)), "add_lt5", NoneV),
     Rule(BinOp(Num(PatX), Add, Num(PatY)), "mult", NoneV),
     Rule(BinOp(PatX, Add, PatY), "ast",
          BinOp(BinOp(Num(IntV(5)), Mult, PatX), Add, PatY))}

RuleLists == UNION {[1..n -> Rules] : n \in 0..MaxRules}

Leaves == {Num(IntV(n)) : n \in {0, 1, 5}}
Ops == {Add, Mult}
Sums == {BinOp(a, op, b) : a \in Leaves, op \in Ops, b \in Leaves}

RwTrees ==
    Leaves \cup Sums
        \cup {BinOp(a, op, b) : a \in Sums, op \in Ops, b \in Leaves}
        \cup {BinOp(a, op, b) : a \in Leaves, op \in Ops, b \in Sums}
        \cup {Module(Tuple(<<a, b>>)) : a \in Sums, b \in Leaves}

----------------------------------------------------------------------------
(* The trees and the visitors of the call-by-call runs *)

Expr(value) == Node("Expr", <<value>>)
Pass == Node("Pass", <<>>)

MaxBody == 2
MaxRuns == 2

VisitStmts == {Pass, Expr(Name(<<"a">>)), Expr(Name(<<"b">>))}
Bodies == UNION {[1..n -> VisitStmts] : n \in 0..MaxBody}

VisitTrees ==
    VisitStmts \cup {Tuple(b) : b \in Bodies} \cup {Module(Tuple(b)) : b \in Bodies}

VisitorHandlers ==
    [Name : {"", "none", "raise"}, Expr : {"", "none", "generic", "catch"},
     Pass : {"", "none"}]

TransformerHandlers ==
    [Name : {"", "none", "self", "copy", "change", "delete", "double", "raise"},
     Expr : {"", "none", "generic", "generic_double", "catch"},
     Pass : {"", "none", "delete"}]

Configs ==
    [cls : {"NodeVisitor", "AdvNodeVisitor"}, nochange_none : {TRUE},
     handlers : VisitorHandlers, patrepls : {<<>>}]
        \cup [cls : {"NodeTransformer"}, nochange_none : BOOLEAN,
              handlers : TransformerHandlers, patrepls : {<<>>}]
        \cup [cls : {"AdvNodeTransformer"}, nochange_none : {TRUE},
              handlers : TransformerHandlers, patrepls : {<<>>}]

\* the rules of test_pattrans, in its order
TransRules ==
    <<Rule(BinOp(Num(PatX), Add, Num(PatY)), "add", NoneV),
      Rule(BinOp(Num(PatX), Mult, Num(PatY)), "zero_left", NoneV),
      Rule(BinOp(Num(PatX), Mult, Num(PatY)), "zero_right", NoneV),
      Rule(BinOp(Num(PatX), Mult, Num(PatY)), "mult", NoneV)>>

\* testSub's last pattern with its function foo, and its tree one sum
\* shorter: 1 + (2 + (3 + 4))
SubRule == Rule(BinOp(Num(PatX), Add, PatY), "foo", NoneV)
SubTree ==
    BinOp(Num(IntV(1)), Add,
          BinOp(Num(IntV(2)), Add, BinOp(Num(IntV(3)), Add, Num(IntV(4)))))

\* the expression trees and the rewriters run on them
PatTrees ==
    Sums \cup {BinOp(a, Add, b) : a \in {BinOp(Num(IntV(0)), Add, Num(IntV(1))),
                                         BinOp(Num(IntV(1)), Mult, Num(IntV(0)))},
                                  b \in Leaves}
         \cup {Module(Tuple(<<BinOp(Num(IntV(1)), Add, Num(IntV(1))), Num(IntV(0))>>))}
         \cup {SubTree}

PatternConfigs ==
    [cls : {"PatternTransformer"}, nochange_none : {TRUE}, handlers : {NoHandlers},
     patrepls : {<<r>> : r \in Rules} \cup {TransRules}]
        \cup [cls : {"Substitutor"}, nochange_none : {TRUE}, handlers : {NoHandlers},
              patrepls : {<<r>> : r \in Rules \cup {SubRule}}]

\* testSub's call: sub(pattern, foo, tree)
SubConfigs ==
    [cls : {"Substitutor"}, nochange_none : {TRUE}, handlers : {NoHandlers},
     patrepls : {<<SubRule>>}]

\* the visitors run on a tree: the rewriters on the expression trees, and
\* testSub's on its own
ConfigsFor(tree) ==
    IF tree = SubTree THEN SubConfigs
    ELSE IF tree \in PatTrees THEN PatternConfigs
    ELSE Configs

\* the trees two runs share, and the visitors and patterns run on them: the
\* module of test_visitor_context and two of test_pattrans's sums
PairModule == Module(Tuple(<<Expr(Name(<<"a">>)), Pass>>))

PairSums ==
    {BinOp(Num(IntV(1)), Add, Num(IntV(1))),
     BinOp(BinOp(Num(IntV(0)), Add, Num(IntV(1))), Add, Num(IntV(5)))}

PairTrees == {PairModule} \cup PairSums

PairHandlers ==
    {[cls |-> "NodeVisitor", h |-> [Name |-> "none", Expr |-> "", Pass |-> "none"]],
     [cls |-> "AdvNodeVisitor", h |-> [Name |-> "none", Expr |-> "", Pass |-> "none"]],
     [cls |-> "AdvNodeVisitor", h |-> [Name |-> "raise", Expr |-> "catch", Pass |-> "none"]],
     [cls |-> "NodeTransformer", h |-> [Name |-> "change", Expr |-> "", Pass |-> "delete"]],
     [cls |-> "AdvNodeTransformer", h |-> [Name |-> "copy", Expr |-> "generic_double", Pass |-> ""]]}

PairConfigs(tree) ==
    IF tree = PairModule
    THEN {[cls |-> c.cls, nochange_none |-> TRUE, handlers |-> c.h, patrepls |-> <<>>] :
            c \in PairHandlers}
    ELSE {[cls |-> "PatternTransformer", nochange_none |-> TRUE, handlers |-> NoHandlers,
           patrepls |-> TransRules],
          [cls |-> "Substitutor", nochange_none |-> TRUE, handlers |-> NoHandlers,
           patrepls |-> <<TransRules[1]>>]}

PairPatterns == {TransRules[1].pattern, BinOp(PatX, PatOp, PatY)}

----------------------------------------------------------------------------
(* The matching run: both patterns made by PatMaker, then raw_match *)

MatchInit ==
    /\ src1 = NoneV
    /\ src2 = NoneV
    /\ tree1 = NoneV
    /\ tree2 = NoneV
    /\ eqs = <<>>
    /\ result = EmptyDict
    /\ pc = "start"
    /\ failure = ""

\* match(PatMaker.run(s1), PatMaker.run(s2)) is called: one PatMaker per
\* tree, then raw_match's first two lines
MakePatterns ==
    /\ pc = "start"
    /\ \E s1 \in SrcTrees, s2 \in SrcTrees :
          /\ src1' = s1
          /\ src2' = s2
          /\ tree1' = PatMaker_run(s1)
          /\ tree2' = PatMaker_run(s2)
    /\ eqs' = <<Eq(tree1', tree2')>>
    /\ result' = EmptyDict
    /\ pc' = "loop"
    /\ UNCHANGED failure
    /\ UNCHANGED rewriteVars
    /\ UNCHANGED <<visitVars, toolVars>>

\* the loop's state after an iteration that match_step lets through
Steps(n) == n.ok /\ eqs' = n.eqs /\ result' = n.result

\* one iteration of the while loop that match_step lets through
LoopStep ==
    /\ pc = "loop"
    /\ Len(eqs) > 0
    /\ Steps(loop_body(eqs, result))
    /\ UNCHANGED <<src1, src2, tree1, tree2, pc, failure>>
    /\ UNCHANGED rewriteVars
    /\ UNCHANGED <<visitVars, toolVars>>

\* the loop's state after an iteration in which match_step raises
Fails(n) == ~n.ok /\ eqs' = n.eqs /\ failure' = n.kind

\* one iteration in which match_step raises MatchFailure: match returns None
LoopFail ==
    /\ pc = "loop"
    /\ Len(eqs) > 0
    /\ Fails(loop_body(eqs, result))
    /\ pc' = "failed"
    /\ UNCHANGED <<src1, src2, tree1, tree2, result>>
    /\ UNCHANGED rewriteVars
    /\ UNCHANGED <<visitVars, toolVars>>

\* the worklist is empty: the wildcard bindings go and result is returned
Return ==
    /\ pc = "loop"
    /\ Len(eqs) = 0
    /\ result' = remove_wildcards(result)
    /\ pc' = "done"
    /\ UNCHANGED <<src1, src2, tree1, tree2, eqs, failure>>
    /\ UNCHANGED rewriteVars
    /\ UNCHANGED <<visitVars, toolVars>>

RewriteInit ==
    /\ rw_tree = NoneV
    /\ rw_rules = <<>>
    /\ rw_out = NoneV
    /\ rw_log = <<>>
    /\ rw_pc = "start"

\* PatternTransformer(patrepls) is constructed for a tree
Construct ==
    /\ rw_pc = "start"
    /\ \E tree \in RwTrees, patrepls \in RuleLists :
          /\ rw_tree' = tree
          /\ rw_rules' = patrepls
    /\ rw_pc' = "ready"
    /\ UNCHANGED <<rw_out, rw_log>>
    /\ UNCHANGED matchVars
    /\ UNCHANGED <<visitVars, toolVars>>

\* process(tree) returns: its value and the calls it made
Returns(ran) == rw_out' = ran.val /\ rw_log' = ran.st

\* process(tree) runs to its end
Process ==
    /\ rw_pc = "ready"
    /\ Returns(PatternTransformer_run(rw_tree, rw_rules))
    /\ rw_pc' = "done"
    /\ UNCHANGED <<rw_tree, rw_rules>>
    /\ UNCHANGED matchVars
    /\ UNCHANGED <<visitVars, toolVars>>

----------------------------------------------------------------------------
(* The call-by-call runs: a tree is built, visitors are made and run on it *)

VisitInit ==
    /\ heap = <<>>
    /\ vroot = CNone
    /\ trav = [p \in {1, 2} |-> NoVisitor]

\* the heap and the root after the tree is built
Built(stored) == heap' = stored.heap /\ vroot' = stored.val

\* the input tree is built
Setup ==
    /\ heap = <<>>
    /\ \E tree \in VisitTrees \cup PatTrees : Built(Store(EmptyHeap, tree))
    /\ UNCHANGED trav
    /\ UNCHANGED <<matchVars, rewriteVars, toolVars>>

\* a step of visitors that all share one _visit_stack
moves_shared_stack(p, r) ==
    /\ trav' = [q \in {1, 2} |->
                  IF q = p THEN r.st ELSE [trav[q] EXCEPT !.vstack = r.st.vstack]]
    /\ heap' = r.heap

\* the visitor's state and the heap after a step
Moves(p, r) == trav' = [trav EXCEPT ![p] = r.st] /\ heap' = r.heap
Goes(p, st) == trav' = [trav EXCEPT ![p] = st] /\ UNCHANGED heap

\* cls.run(tree): a visitor is made and its process(tree) called
Run(p) ==
    /\ heap # <<>>
    /\ trav[p].mode = "idle"
    /\ \E cfg \in ConfigsFor(Resolve(heap, vroot)) :
          Goes(p, process_enter(NewVisitor(cfg), vroot))
    /\ UNCHANGED vroot
    /\ UNCHANGED <<matchVars, rewriteVars, toolVars>>

\* process(tree) is called again on the same visitor
ProcessAgain(p) ==
    /\ trav[p].mode \in {"done", "failed"}
    /\ trav[p].runs < MaxRuns
    /\ Goes(p, process_enter(trav[p], vroot))
    /\ UNCHANGED vroot
    /\ UNCHANGED <<matchVars, rewriteVars, toolVars>>

NodeVisit(p) ==
    /\ InSuperVisit(trav[p])
    /\ IsNodeRef(heap, trav[p].arg)
    /\ Moves(p, node_visit(trav[p], heap))
    /\ UNCHANGED vroot
    /\ UNCHANGED <<matchVars, rewriteVars, toolVars>>

SeqVisit(p) ==
    /\ InSuperVisit(trav[p])
    /\ IsSeqRef(heap, trav[p].arg)
    /\ Goes(p, seq_visit_enter(trav[p], heap))
    /\ UNCHANGED vroot
    /\ UNCHANGED <<matchVars, rewriteVars, toolVars>>

VisitOther(p) ==
    /\ InSuperVisit(trav[p])
    /\ ~IsRef(trav[p].arg)
    /\ Goes(p, visit_other(trav[p]))
    /\ UNCHANGED vroot
    /\ UNCHANGED <<matchVars, rewriteVars, toolVars>>

LoopResult(p) ==
    /\ trav[p].mode = "return"
    /\ Len(trav[p].frames) > 0
    /\ Top(trav[p]).fk = "loop"
    /\ Goes(p, loop_result(trav[p], heap))
    /\ UNCHANGED vroot
    /\ UNCHANGED <<matchVars, rewriteVars, toolVars>>

LoopEnd(p) ==
    /\ trav[p].mode = "loop"
    /\ Moves(p, loop_end(trav[p], heap))
    /\ UNCHANGED vroot
    /\ UNCHANGED <<matchVars, rewriteVars, toolVars>>

HandlerReturn(p) ==
    /\ trav[p].mode = "return"
    /\ Len(trav[p].frames) > 0
    /\ Top(trav[p]).fk = "handler"
    /\ Moves(p, handler_return(trav[p], heap))
    /\ UNCHANGED vroot
    /\ UNCHANGED <<matchVars, rewriteVars, toolVars>>

VisitReturn(p) ==
    /\ trav[p].mode = "return"
    /\ Len(trav[p].frames) > 0
    /\ Top(trav[p]).fk = "visit"
    /\ Goes(p, visit_return(trav[p], heap))
    /\ UNCHANGED vroot
    /\ UNCHANGED <<matchVars, rewriteVars, toolVars>>

PatternVisit(p) ==
    /\ trav[p].mode = "call"
    /\ trav[p].cfg.cls = "PatternTransformer"
    /\ Goes(p, PatternTransformer_visit_enter(trav[p]))
    /\ UNCHANGED vroot
    /\ UNCHANGED <<matchVars, rewriteVars, toolVars>>

PatternReturn(p) ==
    /\ trav[p].mode = "return"
    /\ Len(trav[p].frames) > 0
    /\ Top(trav[p]).fk = "patvisit"
    /\ Moves(p, PatternTransformer_visit_return(trav[p], heap))
    /\ UNCHANGED vroot
    /\ UNCHANGED <<matchVars, rewriteVars, toolVars>>

SubstitutorVisit(p) ==
    /\ trav[p].mode = "call"
    /\ trav[p].cfg.cls = "Substitutor"
    /\ Moves(p, Substitutor_visit(trav[p], heap))
    /\ UNCHANGED vroot
    /\ UNCHANGED <<matchVars, rewriteVars, toolVars>>

ProcessReturn(p) ==
    /\ trav[p].mode = "return"
    /\ Len(trav[p].frames) = 0
    /\ Goes(p, process_return(trav[p]))
    /\ UNCHANGED vroot
    /\ UNCHANGED <<matchVars, rewriteVars, toolVars>>

Unwind(p) ==
    /\ trav[p].mode = "raise"
    /\ Goes(p, unwind(trav[p]))
    /\ UNCHANGED vroot
    /\ UNCHANGED <<matchVars, rewriteVars, toolVars>>

\* the tree two runs share is built
SetupPair ==
    /\ heap = <<>>
    /\ \E tree \in PairTrees : Built(Store(EmptyHeap, tree))
    /\ UNCHANGED trav
    /\ UNCHANGED <<matchVars, rewriteVars, toolVars>>

\* cls.run(tree) on the shared tree, with a visitor of its own
RunPair(p) ==
    /\ heap # <<>>
    /\ trav[p].mode = "idle"
    /\ \E cfg \in PairConfigs(Resolve(heap, vroot)) :
          Goes(p, process_enter(NewVisitor(cfg), vroot))
    /\ UNCHANGED vroot
    /\ UNCHANGED <<matchVars, rewriteVars, toolVars>>

\* match(pattern, tree) is called on the shared tree: raw_match's first two
\* lines
MatchShared ==
    /\ pc = "start"
    /\ heap # <<>>
    /\ Resolve(heap, vroot) \in PairSums
    /\ \E pattern \in PairPatterns : tree1' = pattern
    /\ tree2' = Resolve(heap, vroot)
    /\ eqs' = <<Eq(tree1', tree2')>>
    /\ result' = EmptyDict
    /\ pc' = "loop"
    /\ UNCHANGED <<src1, src2, failure>>
    /\ UNCHANGED rewriteVars
    /\ UNCHANGED <<visitVars, toolVars>>

----------------------------------------------------------------------------
(* nodes_from_asdl (iast/node.py): ASDLImporter over a parsed grammar, then *)
(* the node classes made in the order of its result.  A definition of the  *)
(* grammar is [name, sum, types, fields]: a Sum with its constructors      *)
(* [name, fields] or a Product with its fields [name, type, seq, opt].  An *)
(* OrderedDict is the sequence of its items [k, v].                        *)

\* d[key] = val on an OrderedDict: a key it holds keeps its place
OrderedDict_set(d, key, val) ==
    IF \E i \in 1..Len(d) : d[i].k = key
    THEN [i \in 1..Len(d) |-> IF d[i].k = key THEN [k |-> key, v |-> val] ELSE d[i]]
    ELSE Append(d, [k |-> key, v |-> val])

\* d.update(other) up to other's n-th item
RECURSIVE OrderedDict_update(_, _, _)
OrderedDict_update(d, other, n) ==
    IF n = 0
    THEN d
    ELSE OrderedDict_set(OrderedDict_update(d, other, n - 1), other[n].k, other[n].v)

OrderedDict_has(d, key) == \E i \in 1..Len(d) : d[i].k = key
OrderedDict_get(d, key) == d[CHOOSE i \in 1..Len(d) : d[i].k = key].v

\* visitField: (field.name, field.type, quant)
visitField(field) ==
    [name |-> field.name, type |-> field.type,
     quant |-> IF field.seq THEN "*" ELSE IF field.opt THEN "?" ELSE ""]

visitFields(fields) == [j \in 1..Len(fields) |-> visitField(fields[j])]

\* visitSum's loop: visitConstructor on the first n constructors
RECURSIVE visitConstructors(_, _, _, _)
visitConstructors(right_info, types, name, n) ==
    IF n = 0
    THEN right_info
    ELSE OrderedDict_set(visitConstructors(right_info, types, name, n - 1),
                         types[n].name,
                         [fields |-> visitFields(types[n].fields), base |-> name])

\* visitType on a definition: visitSum or visitProduct; [left_info, right_info]
visitType(left_info, right_info, dfn) ==
    IF dfn.sum
    THEN [left_info |-> OrderedDict_set(left_info, dfn.name,
                                        [fields |-> <<>>, base |-> "AST"]),
          right_info |-> visitConstructors(right_info, dfn.types, dfn.name,
                                           Len(dfn.types))]
    ELSE [left_info |-> OrderedDict_set(left_info, dfn.name,
                                        [fields |-> visitFields(dfn.fields),
                                         base |-> "AST"]),
          right_info |-> right_info]

\* an update that puts the constructors first
update_right_first(left_info, right_info) ==
    OrderedDict_update(right_info, left_info, Len(left_info))

\* ASDLImporter.run's end: "self.left_info.update(self.right_info)"
ASDLImporter_update(left_info, right_info) ==
    OrderedDict_update(left_info, right_info, Len(right_info))

\* the class made for an entry of info: type(name, (lang[base],), namespace),
\* its fields TypedASTField(None, fq) when typed
new_node(entry, typed) ==
    [base |-> entry.base,
     fields |-> [j \in 1..Len(entry.fields) |->
                    [name |-> entry.fields[j].name,
                     quant |-> IF typed THEN entry.fields[j].quant ELSE "",
                     typed |-> typed, kind |-> ""]]]

\* a lookup that finds every field type
unresolved_none(info, lang, primitive_types) == {}

\* the field types the second loop cannot resolve: "lang[ft] if ft in lang
\* else primitive_types[ft]" raises KeyError on them
Unresolved(info, lang, primitive_types) ==
    {ft \in UNION {{info[k].v.fields[j].type : j \in 1..Len(info[k].v.fields)} :
                      k \in 1..Len(info)} :
        ~OrderedDict_has(lang, ft) /\ ft \notin primitive_types}

\* the second loop without an error: "desc.kind = typ" on every field
patch_kinds(info, lang) ==
    [i \in 1..Len(lang) |->
        [k |-> lang[i].k,
         v |-> [lang[i].v EXCEPT !.fields =
                  [j \in 1..Len(@) |->
                      [@[j] EXCEPT !.kind =
                          OrderedDict_get(info, lang[i].k).fields[j].type]]]]]

\* the grammars: test_node.py's asdl_spec, a second sum with a constructor
\* of the same name, and definitions with a field type that nothing defines
Fld(name, type, seq, opt) == [name |-> name, type |-> type, seq |-> seq, opt |-> opt]
Constructor(name, fields) == [name |-> name, fields |-> fields]
Sum(name, types) == [name |-> name, sum |-> TRUE, types |-> types, fields |-> <<>>]
Product(name, fields) == [name |-> name, sum |-> FALSE, types |-> <<>>, fields |-> fields]

Dfns ==
    {Sum("expr", <<Constructor("Sum", <<Fld("operands", "expr", TRUE, FALSE)>>),
                   Constructor("Num", <<Fld("val", "num", FALSE, FALSE)>>),
                   Constructor("Unit", <<>>)>>),
     Product("num", <<Fld("real", "int", FALSE, FALSE), Fld("imag", "int", FALSE, TRUE)>>),
     Sum("stmt", <<Constructor("Pass", <<>>), Constructor("Unit", <<>>)>>),
     Product("loc", <<Fld("line", "int", FALSE, FALSE), Fld("col", "float", FALSE, TRUE)>>),
     Sum("expr", <<Constructor("Num", <<Fld("val", "cplx", FALSE, FALSE)>>)>>)}

MaxDfns == 3

Grammars == UNION {[1..n -> Dfns] : n \in 1..MaxDfns}

PrimitiveTypes == {{"int"}, {"int", "float"}}

GenInit ==
    gen = [pc |-> "start", dfns |-> <<>>, typed |-> FALSE, primitive_types |-> {},
           i |-> 1, left_info |-> <<>>, right_info |-> <<>>, info |-> <<>>,
           k |-> 1, lang |-> <<>>, out |-> <<>>, err |-> ""]

\* nodes_from_asdl(asdl_tree, typed=..., primitive_types=...) is called:
\* ASDLImporter().run up to self.visit(mod)
FromAsdl ==
    /\ gen.pc = "start"
    /\ \E mod \in Grammars, typed \in BOOLEAN, primitive_types \in PrimitiveTypes :
          gen' = [gen EXCEPT !.pc = "visit", !.dfns = mod, !.typed = typed,
                             !.primitive_types = primitive_types]
    /\ UNCHANGED <<made, dumped, tmpl, expanded>>
    /\ UNCHANGED <<matchVars, rewriteVars, visitVars>>

\* visitModule's loop: one definition
VisitType ==
    /\ gen.pc = "visit"
    /\ gen.i <= Len(gen.dfns)
    /\ LET got == visitType(gen.left_info, gen.right_info, gen.dfns[gen.i])
       IN  gen' = [gen EXCEPT !.left_info = got.left_info,
                              !.right_info = got.right_info, !.i = @ + 1]
    /\ UNCHANGED <<made, dumped, tmpl, expanded>>
    /\ UNCHANGED <<matchVars, rewriteVars, visitVars>>

\* run returns info; "lang = {'AST': AST}"
ImporterReturn ==
    /\ gen.pc = "visit"
    /\ gen.i > Len(gen.dfns)
    /\ gen' = [gen EXCEPT !.pc = "create",
                          !.info = ASDLImporter_update(gen.left_info, gen.right_info),
                          !.lang = <<[k |-> "AST", v |-> [base |-> "", fields |-> <<>>]]>>]
    /\ UNCHANGED <<made, dumped, tmpl, expanded>>
    /\ UNCHANGED <<matchVars, rewriteVars, visitVars>>

\* the first loop: the class of one entry, lang[base] a KeyError if missing
CreateNode ==
    /\ gen.pc = "create"
    /\ gen.k <= Len(gen.info)
    /\ gen' = IF OrderedDict_has(gen.lang, gen.info[gen.k].v.base)
              THEN [gen EXCEPT !.lang = OrderedDict_set(@, gen.info[gen.k].k,
                                           new_node(gen.info[gen.k].v, gen.typed)),
                               !.k = @ + 1]
              ELSE [gen EXCEPT !.pc = "failed", !.err = "KeyError"]
    /\ UNCHANGED <<made, dumped, tmpl, expanded>>
    /\ UNCHANGED <<matchVars, rewriteVars, visitVars>>

\* "if typed:" the second loop, the field types patched in
PatchKinds ==
    /\ gen.pc = "create"
    /\ gen.k > Len(gen.info)
    /\ gen.typed
    /\ gen' = IF Unresolved(gen.info, gen.lang, gen.primitive_types) = {}
              THEN [gen EXCEPT !.pc = "return", !.lang = patch_kinds(gen.info, @)]
              ELSE [gen EXCEPT !.pc = "failed", !.err = "KeyError"]
    /\ UNCHANGED <<made, dumped, tmpl, expanded>>
    /\ UNCHANGED <<matchVars, rewriteVars, visitVars>>

\* "return lang"
ReturnLang ==
    /\ \/ gen.pc = "return"
       \/ gen.pc = "create" /\ gen.k > Len(gen.info) /\ ~gen.typed
    /\ gen' = [gen EXCEPT !.pc = "done", !.out = gen.lang]
    /\ UNCHANGED <<made, dumped, tmpl, expanded>>
    /\ UNCHANGED <<matchVars, rewriteVars, visitVars>>

----------------------------------------------------------------------------
(* Construction of a node of a generated language (iast/node.py,            *)
(* TypedASTField over simplestruct's TypedField).  The language is the     *)
(* one nodes_from_asdl makes of test_node.py's grammar; a class of the     *)
(* mapping is [base, fields], a field descriptor [name, quant, typed,      *)
(* kind].                                                                  *)

\* visitModule on the first n definitions, from empty left_info, right_info
RECURSIVE visitModule(_, _)
visitModule(dfns, n) ==
    IF n = 0
    THEN [left_info |-> <<>>, right_info |-> <<>>]
    ELSE visitType(visitModule(dfns, n - 1).left_info,
                   visitModule(dfns, n - 1).right_info, dfns[n])

\* the first loop of nodes_from_asdl on the first n entries of info
RECURSIVE make_nodes(_, _, _)
make_nodes(info, typed, n) ==
    IF n = 0
    THEN <<[k |-> "AST", v |-> [base |-> "", fields |-> <<>>]]>>
    ELSE OrderedDict_set(make_nodes(info, typed, n - 1), info[n].k,
                         new_node(info[n].v, typed))

\* test_node.py's asdl_spec
asdl_spec ==
    <<Sum("expr", <<Constructor("Sum", <<Fld("operands", "expr", TRUE, FALSE)>>),
                    Constructor("Num", <<Fld("val", "num", FALSE, FALSE)>>),
                    Constructor("Unit", <<>>)>>),
      Product("num", <<Fld("real", "int", FALSE, FALSE), Fld("imag", "int", FALSE, TRUE)>>)>>

asdl_info ==
    ASDLImporter_update(visitModule(asdl_spec, Len(asdl_spec)).left_info,
                        visitModule(asdl_spec, Len(asdl_spec)).right_info)

\* nodes_from_asdl(parse_asdl(asdl_spec), typed=typed, primitive_types={'int': int})
Lang(typed) ==
    IF typed
    THEN patch_kinds(asdl_info, make_nodes(asdl_info, TRUE, Len(asdl_info)))
    ELSE make_nodes(asdl_info, FALSE, Len(asdl_info))

\* the base of a class: of the language, or pattern(AST) and PatVar(pattern)
BaseOf(cls) ==
    IF cls = "pattern" THEN "AST"
    ELSE IF cls = "PatVar" THEN "pattern"
    ELSE IF OrderedDict_has(Lang(TRUE), cls) THEN OrderedDict_get(Lang(TRUE), cls).base
    ELSE ""

RECURSIVE issubclass(_, _)
issubclass(cls, kind) ==
    \/ cls = kind
    \/ BaseOf(cls) # "" /\ issubclass(BaseOf(cls), kind)

\* isinstance(value, kind), kind a class of the language or int
isinstance(value, kind) ==
    IF kind = "int" THEN value.k = "int"
    ELSE IsAST(value) /\ issubclass(value.t, kind)

\* the classes whose body assigns _meta: "_meta = False" in AST, none other
ClassMeta == [AST |-> FALSE]

\* value._meta: the attribute of the nearest class that assigns it
RECURSIVE getattr_meta(_)
getattr_meta(cls) ==
    IF cls \in DOMAIN ClassMeta THEN ClassMeta[cls] ELSE getattr_meta(BaseOf(cls))

\* "isinstance(value, AST) and value._meta"
is_meta(value) == IsAST(value) /\ getattr_meta(value.t)

NoError == [exc |-> "", msg |-> "", exp |-> "", got |-> ""]
TypeError(msg, exp, got) == [exc |-> "TypeError", msg |-> msg, exp |-> exp, got |-> got]

\* str_valtype(value)
str_valtype(value) == IF IsAST(value) THEN value.t ELSE value.k

\* TypedField.checktype: the value is an instance of kind, or TypeError
TypedField_checktype(value, kind) ==
    IF isinstance(value, kind) THEN NoError
    ELSE TypeError("Expected {}; got {}", kind, str_valtype(value))

\* TypedASTField.checktype
TypedASTField_checktype(value, kind) ==
    IF is_meta(value) THEN NoError ELSE TypedField_checktype(value, kind)

\* iter(value): a tuple's items, a Struct's field values (Struct.__iter__),
\* a str's characters; nothing else of the values here is iterable
Iterable(value) == value.k \in {"seq", "node", "str"}
Iter(value) ==
    IF value.k = "str" THEN [i \in 1..Len(value.s) |-> StrV(<<value.s[i]>>)] ELSE value.f

\* TypedField.checktype_seq: an iterable whose items pass self.checktype
TypedField_checktype_seq(value, kind) ==
    IF ~Iterable(value)
    THEN TypeError("Expected sequence of {}; got {}", kind, str_valtype(value))
    ELSE IF \E i \in 1..Len(Iter(value)) :
               TypedASTField_checktype(Iter(value)[i], kind).exc # ""
    THEN TypeError("Expected sequence of {}; got sequence with {}", kind,
                   str_valtype(Iter(value)[CHOOSE i \in 1..Len(Iter(value)) :
                       /\ TypedASTField_checktype(Iter(value)[i], kind).exc # ""
                       /\ \A h \in 1..(i - 1) :
                             TypedASTField_checktype(Iter(value)[h], kind).exc = ""]))
    ELSE NoError

\* a checktype_seq that lets a single node through to TypedField's
checktype_seq_coerce(value, kind) ==
    IF is_meta(value) THEN NoError ELSE TypedField_checktype_seq(value, kind)

\* TypedASTField.checktype_seq
TypedASTField_checktype_seq(value, kind) ==
    IF is_meta(value) THEN NoError
    ELSE IF IsAST(value)
    THEN TypeError("Expected sequence of {}; got {} node instead", kind,
                   str_valtype(value))
    ELSE TypedField_checktype_seq(value, kind)

\* TypedField.check: or_none lets None through; seq checks a sequence
TypedField_check(desc, value) ==
    IF desc.quant = "?" /\ IsNone(value) THEN NoError
    ELSE IF desc.quant = "*" THEN TypedASTField_checktype_seq(value, desc.kind)
    ELSE TypedASTField_checktype(value, desc.kind)

\* TypedField.normalize: a sequence field holds tuple(value)
TypedField_normalize(desc, value) ==
    IF desc.quant = "*" THEN Tuple(Iter(value)) ELSE value

\* TypedASTField.normalize
TypedASTField_normalize(desc, value) ==
    IF is_meta(value) THEN value ELSE TypedField_normalize(desc, value)

\* Field.__set__ of a descriptor: a plain Field() stores the value; a
\* TypedASTField checks it, then stores its normal form; an error is
\* raised for the node type and the field
Field_set(cls, desc, value) ==
    IF ~desc.typed
    THEN [err |-> NoError, node |-> "", field |-> "", value |-> value]
    ELSE IF TypedField_check(desc, value).exc # ""
    THEN [err |-> TypedField_check(desc, value), node |-> cls,
          field |-> desc.name, value |-> NoneV]
    ELSE [err |-> NoError, node |-> "", field |-> "",
          value |-> TypedASTField_normalize(desc, value)]

\* the values given to a constructor
MadeNum == Node("num", <<IntV(1), IntV(2)>>)
MadeUnit == Node("Unit", <<>>)
MadeValues ==
    {IntV(1), StrV(<<"a">>), NoneV, MadeNum, MadeUnit, PatVar(<<"_", "X">>),
     Node("Num", <<MadeNum>>), Tuple(<<>>), Tuple(<<IntV(1), IntV(2)>>),
     Tuple(<<MadeUnit>>), Tuple(<<MadeUnit, PatVar(<<"_", "X">>)>>),
     Tuple(<<PatVar(<<"_", "X">>)>>)}

MadeInit ==
    made = [pc |-> "start", typed |-> FALSE, cls |-> "", fields |-> <<>>,
            args |-> <<>>, j |-> 1, stored |-> <<>>,
            err |-> NoError, node |-> "", field |-> ""]

\* cls(*args) on a class of the language, one argument per field
Struct_new ==
    /\ made.pc = "start"
    /\ \E typed \in BOOLEAN, cls \in {"num", "Num", "Sum", "Unit"} :
          \E args \in [1..Len(OrderedDict_get(Lang(typed), cls).fields) -> MadeValues] :
             made' = [made EXCEPT !.pc = "fields", !.typed = typed, !.cls = cls,
                                  !.fields = OrderedDict_get(Lang(typed), cls).fields,
                                  !.args = args]
    /\ UNCHANGED <<gen, dumped, tmpl, expanded>>
    /\ UNCHANGED <<matchVars, rewriteVars, visitVars>>

\* the next field is set from its argument, or the construction raises
SetField ==
    /\ made.pc = "fields"
    /\ made.j <= Len(made.fields)
    /\ LET set == Field_set(made.cls, made.fields[made.j], made.args[made.j])
       IN  made' = IF set.err.exc # ""
                   THEN [made EXCEPT !.pc = "raised", !.err = set.err,
                                     !.node = set.node, !.field = set.field]
                   ELSE [made EXCEPT !.stored = Append(@, set.value), !.j = @ + 1]
    /\ UNCHANGED <<gen, dumped, tmpl, expanded>>
    /\ UNCHANGED <<matchVars, rewriteVars, visitVars>>

\* every field is set: the constructor returns the node
Constructed ==
    /\ made.pc = "fields"
    /\ made.j > Len(made.fields)
    /\ made' = [made EXCEPT !.pc = "done"]
    /\ UNCHANGED <<gen, dumped, tmpl, expanded>>
    /\ UNCHANGED <<matchVars, rewriteVars, visitVars>>

----------------------------------------------------------------------------
(* dump (iast/node.py) and the evaluation of its text.  The text is the    *)
(* sequence of its tokens [t, s, n]: an identifier, a punctuation mark, an  *)
(* int or str literal, a line break, or a run of n spaces.                  *)

Tok(t, s, n, cs) == [t |-> t, s |-> s, n |-> n, cs |-> cs]
Id(name) == Tok("id", name, 0, <<>>)
P(mark) == Tok("punct", mark, 0, <<>>)
Spaces(n) == Tok("space", "", n, <<>>)
Newline == Tok("newline", "", 0, <<>>)

\* test_node.py's classes Add and Sum: _fields, and len() of the names
DumpFields == [Add |-> <<"left", "right">>, Sum |-> <<"operands">>]
StrLen == [Add |-> 3, Sum |-> 3, left |-> 4, right |-> 5, operands |-> 8]

\* repr(tree) of an int, a str or None
repr(tree) ==
    IF tree.k = "int" THEN Tok("int", "", tree.v, <<>>)
    ELSE IF tree.k = "str" THEN Tok("str", "", 0, tree.s)
    ELSE Id("None")

\* delim.join(parts) up to the n-th part
RECURSIVE join(_, _, _)
join(delim, parts, n) ==
    IF n = 0 THEN <<>>
    ELSE IF n = 1 THEN parts[1]
    ELSE join(delim, parts, n - 1) \o delim \o parts[n]

\* an end that is ')' for every tuple
tuple_end_plain(tree) == <<P(")")>>

\* "end = ',)' if len(tree) == 1 else ')'"
tuple_end(tree) == IF Len(tree.f) = 1 THEN <<P(","), P(")")>> ELSE <<P(")")>>

\* dump(tree, indent)
RECURSIVE dump(_, _)
dump(tree, indent) ==
    IF IsAST(tree)
    THEN <<Id(tree.t), P("(")>>
            \o join(<<P(","), Newline, Spaces(indent + StrLen[tree.t] + 1)>>,
                    [j \in 1..Len(tree.f) |->
                        <<Id(DumpFields[tree.t][j]), Spaces(1), P("="), Spaces(1)>>
                           \o dump(tree.f[j],
                                   StrLen[DumpFields[tree.t][j]] + 3
                                      + indent + StrLen[tree.t] + 1)],
                    Len(tree.f))
            \o <<P(")")>>
    ELSE IF IsTuple(tree)
    THEN <<P("(")>>
            \o join(<<P(","), Newline, Spaces(indent + 1)>>,
                    [j \in 1..Len(tree.f) |-> dump(tree.f[j], indent + 1)],
                    Len(tree.f))
            \o tuple_end(tree)
    ELSE <<repr(tree)>>

\* the token at or after i that is not white space (0 past the end)
RECURSIVE next_token(_, _)
next_token(text, i) ==
    IF i > Len(text) THEN 0
    ELSE IF text[i].t \in {"space", "newline"} THEN next_token(text, i + 1)
    ELSE i

Parsed(val, pos) == [ok |-> TRUE, val |-> val, pos |-> pos]
SyntaxError == [ok |-> FALSE, val |-> NoneV, pos |-> 0]

IsMark(text, i, mark) == i # 0 /\ text[i] = P(mark)

\* cls(**kw): every field of the class from its keyword, no other keyword
call_node(cls, kw) ==
    IF /\ cls \in DOMAIN DumpFields
       /\ {kw[i].k : i \in 1..Len(kw)}
             = {DumpFields[cls][j] : j \in 1..Len(DumpFields[cls])}
       /\ Len(kw) = Len(DumpFields[cls])
    THEN [ok |-> TRUE,
          val |-> Node(cls, [j \in 1..Len(DumpFields[cls]) |->
                                OrderedDict_get(kw, DumpFields[cls][j])])]
    ELSE [ok |-> FALSE, val |-> NoneV]

RECURSIVE eval_expr(_, _), eval_tuple(_, _, _, _), eval_call(_, _, _, _),
          eval_item(_, _, _, _), eval_keyword(_, _, _, _, _)

\* an expression that starts at or after i
eval_expr(text, i) ==
    IF next_token(text, i) = 0 THEN SyntaxError
    ELSE IF text[next_token(text, i)].t = "int"
    THEN Parsed(IntV(text[next_token(text, i)].n), next_token(text, i) + 1)
    ELSE IF text[next_token(text, i)].t = "str"
    THEN Parsed(StrV(text[next_token(text, i)].cs), next_token(text, i) + 1)
    ELSE IF text[next_token(text, i)] = Id("None")
    THEN Parsed(NoneV, next_token(text, i) + 1)
    ELSE IF text[next_token(text, i)].t = "id"
    THEN IF IsMark(text, next_token(text, next_token(text, i) + 1), "(")
         THEN eval_call(text, next_token(text, next_token(text, i) + 1) + 1,
                        text[next_token(text, i)].s, <<>>)
         ELSE SyntaxError
    ELSE IF IsMark(text, next_token(text, i), "(")
    THEN eval_tuple(text, next_token(text, i) + 1, <<>>, FALSE)
    ELSE SyntaxError

\* after '(' and the items read so far: ')' ends a tuple, or a
\* parenthesized expression when one item was read and no comma
eval_tuple(text, i, items, comma) ==
    IF next_token(text, i) = 0 THEN SyntaxError
    ELSE IF IsMark(text, next_token(text, i), ")")
    THEN IF Len(items) = 1 /\ ~comma
         THEN Parsed(items[1], next_token(text, i) + 1)
         ELSE Parsed(Tuple(items), next_token(text, i) + 1)
    ELSE eval_item(text, items, comma, eval_expr(text, i))

\* an item was read: ',' or ')' follows it
eval_item(text, items, comma, item) ==
    IF ~item.ok THEN SyntaxError
    ELSE IF IsMark(text, next_token(text, item.pos), ",")
    THEN eval_tuple(text, next_token(text, item.pos) + 1, Append(items, item.val), TRUE)
    ELSE IF IsMark(text, next_token(text, item.pos), ")")
    THEN eval_tuple(text, item.pos, Append(items, item.val), comma)
    ELSE SyntaxError

\* after 'cls(' and the keywords read so far
eval_call(text, i, cls, kw) ==
    IF next_token(text, i) = 0 THEN SyntaxError
    ELSE IF IsMark(text, next_token(text, i), ")")
    THEN IF call_node(cls, kw).ok
         THEN Parsed(call_node(cls, kw).val, next_token(text, i) + 1)
         ELSE SyntaxError
    ELSE IF /\ text[next_token(text, i)].t = "id"
            /\ IsMark(text, next_token(text, next_token(text, i) + 1), "=")
    THEN eval_keyword(text, cls, kw, text[next_token(text, i)].s,
                      eval_expr(text, next_token(text, next_token(text, i) + 1) + 1))
    ELSE SyntaxError

\* 'key = value' was read: ',' or ')' follows it
eval_keyword(text, cls, kw, key, value) ==
    IF ~value.ok \/ OrderedDict_has(kw, key) THEN SyntaxError
    ELSE IF IsMark(text, next_token(text, value.pos), ",")
    THEN eval_call(text, next_token(text, value.pos) + 1, cls,
                   OrderedDict_set(kw, key, value.val))
    ELSE IF IsMark(text, next_token(text, value.pos), ")")
    THEN eval_call(text, value.pos, cls, OrderedDict_set(kw, key, value.val))
    ELSE SyntaxError

\* eval(s, locals()): one expression and nothing after it
eval(text) ==
    IF eval_expr(text, 1).ok /\ next_token(text, eval_expr(text, 1).pos) = 0
    THEN eval_expr(text, 1)
    ELSE SyntaxError

\* the trees dumped: leaves, sequences of up to MaxSeq leaves, the nodes
\* over them, sequences of those nodes, and the tree of test_dump
MaxSeq == 2
Seqs(S) == {Tuple(s) : s \in UNION {[1..n -> S] : n \in 0..MaxSeq}}
DumpLeaves == {IntV(1), IntV(2), StrV(<<"a">>), NoneV}
DumpInner ==
    {Node("Add", <<IntV(1), IntV(2)>>), Node("Sum", <<Tuple(<<IntV(1)>>)>>),
     Node("Sum", <<Tuple(<<>>)>>), Node("Sum", <<IntV(1)>>), IntV(1)}
DumpTest ==
    Node("Sum", <<Tuple(<<Node("Add", <<IntV(1), IntV(2)>>),
                          Node("Sum", <<Tuple(<<IntV(3), IntV(4)>>)>>),
                          Node("Sum", <<Tuple(<<IntV(5)>>)>>),
                          Node("Sum", <<Tuple(<<>>)>>)>>)>>)
DumpTrees ==
    DumpLeaves \cup Seqs(DumpLeaves) \cup Seqs(DumpInner)
       \cup {Node("Sum", <<t>>) : t \in Seqs(DumpInner)}
       \cup {Node("Add", <<l, r>>) : l, r \in DumpInner}
       \cup {DumpTest}

DumpInit ==
    dumped = [pc |-> "start", tree |-> NoneV, text |-> <<>>, out |-> SyntaxError]

\* s = dump(tree)
Dump ==
    /\ dumped.pc = "start"
    /\ \E tree \in DumpTrees :
          dumped' = [dumped EXCEPT !.pc = "dumped", !.tree = tree,
                                   !.text = dump(tree, 0)]
    /\ UNCHANGED <<gen, made, tmpl, expanded>>
    /\ UNCHANGED <<matchVars, rewriteVars, visitVars>>

\* tree2 = eval(s, locals())
Eval ==
    /\ dumped.pc = "dumped"
    /\ dumped' = [dumped EXCEPT !.pc = "done", !.out = eval(dumped.text)]
    /\ UNCHANGED <<gen, made, tmpl, expanded>>
    /\ UNCHANGED <<matchVars, rewriteVars, visitVars>>

----------------------------------------------------------------------------
(* Templater (iast/python/pyutil.py).  subst maps a key to None, a str or   *)
(* an AST; a key is an identifier behind one of the prefixes '', '@',       *)
(* '<def>', '<c>', so subst is one map of identifiers for each prefix.      *)
(* bailout is an int value or None.                                         *)

Attribute(value, attr) == Node("Attribute", <<value, StrV(attr), Load>>)
FunctionDef(name) ==
    Node("FunctionDef", <<StrV(name), Tuple(<<>>), Tuple(<<Pass>>), Tuple(<<>>), NoneV>>)

\* self.subst.get(prefix + id, None)
subst_get(map, id) == IF id \in DOMAIN map THEN map[id] ELSE NoneV

\* the function f of visit_Name
visit_Name_f(subst, node) ==
    IF ~(IsAST(node) /\ node.t = "Name") THEN NoneV
    ELSE IF subst_get(subst.name, NameId(node)).k = "str"
    THEN Node("Name", [node.f EXCEPT ![1] = subst_get(subst.name, NameId(node))])
    ELSE subst_get(subst.name, NameId(node))

\* the function f of visit_Attribute
visit_Attribute_f(subst, node) ==
    IF IsNone(subst_get(subst.attr, node.f[2].s)) THEN NoneV
    ELSE Node("Attribute", [node.f EXCEPT ![2] = subst_get(subst.attr, node.f[2].s)])

\* the function f of visit_FunctionDef
visit_FunctionDef_f(subst, node) ==
    IF IsNone(subst_get(subst.def, node.f[1].s)) THEN NoneV
    ELSE Node("FunctionDef", [node.f EXCEPT ![1] = subst_get(subst.def, node.f[1].s)])

\* func(value) for the handler that called fix
fix_func(kind, subst, value) ==
    IF kind = "Attribute" THEN visit_Attribute_f(subst, value)
    ELSE IF kind = "FunctionDef" THEN visit_FunctionDef_f(subst, value)
    ELSE visit_Name_f(subst, value)

\* a test that lets one more step through
bailout_passed(steps, bailout) == steps > bailout.v

\* "steps >= self.bailout" on an int bailout
bailout_reached(steps, bailout) == steps >= bailout.v

\* one iteration of fix's while loop on the state t of the run
fix_iteration(t) ==
    IF IsNone(t.bailout)
    THEN [t EXCEPT !.pc = "raised", !.err = "TypeError"]
    ELSE IF bailout_reached(t.steps, t.bailout)
    THEN [t EXCEPT !.pc = "raised", !.err = "RuntimeError: Exceeded bailout in Templater"]
    ELSE IF ~IsNone(fix_func(t.fixing, t.subst, t.value))
    THEN [t EXCEPT !.changed = t.repeat,
                   !.value = fix_func(t.fixing, t.subst, t.value),
                   !.steps = @ + 1, !.calls = @ + 1, !.subs = @ + 1]
    ELSE [t EXCEPT !.changed = FALSE, !.steps = @ + 1, !.calls = @ + 1]

\* the identifiers, the maps of subst, the limits
Idents == {<<"a">>, <<"b">>}
MaxBailout == 3
RecursionLimit == 4
NameMaps == [Idents -> {NoneV, Num(IntV(1))} \cup {StrV(i) : i \in Idents}]
StrMaps == [Idents -> {NoneV} \cup {StrV(i) : i \in Idents}]
CodeMaps == [Idents -> {NoneV} \cup {Expr(Name(i)) : i \in Idents}]
NoRules == [i \in Idents |-> NoneV]
Substs ==
    [name : NameMaps, attr : {NoRules}, def : {NoRules}, code : CodeMaps]
       \cup [name : {NoRules}, attr : StrMaps, def : {NoRules}, code : {NoRules}]
       \cup [name : {NoRules}, attr : {NoRules}, def : StrMaps, code : {NoRules}]

TmplTree(kind, id) ==
    IF kind = "Name" THEN Name(id)
    ELSE IF kind = "Attribute" THEN Attribute(Num(IntV(1)), id)
    ELSE IF kind = "FunctionDef" THEN FunctionDef(id)
    ELSE Expr(Name(id))

TmplInit ==
    tmpl = [pc |-> "start", kind |-> "", fixing |-> "", subst |-> [name |-> NoRules,
               attr |-> NoRules, def |-> NoRules, code |-> NoRules],
            repeat |-> FALSE, bailout |-> NoneV, tree |-> NoneV, value |-> NoneV,
            steps |-> 0, changed |-> FALSE, calls |-> 0, subs |-> 0, depth |-> 0,
            err |-> "", out |-> NoneV]

\* Templater.run(tree, subst, repeat=..., bailout=...) reaches the handler
\* of its node: visit_Name, or visit_Attribute and visit_FunctionDef after
\* their generic_visit, call fix; visit_Expr starts
Templater_run ==
    /\ tmpl.pc = "start"
    /\ \E kind \in {"Name", "Attribute", "FunctionDef", "Expr"}, id \in Idents,
          subst \in Substs, repeat \in BOOLEAN,
          bailout \in {NoneV} \cup {IntV(n) : n \in 0..MaxBailout} :
          tmpl' = [tmpl EXCEPT !.pc = IF kind = "Expr" THEN "visit_Expr" ELSE "fix",
                               !.kind = kind, !.fixing = IF kind = "Expr" THEN "" ELSE kind,
                               !.subst = subst, !.repeat = repeat,
                               !.bailout = bailout, !.tree = TmplTree(kind, id),
                               !.value = TmplTree(kind, id), !.changed = TRUE]
    /\ UNCHANGED <<gen, made, dumped, expanded>>
    /\ UNCHANGED <<matchVars, rewriteVars, visitVars>>

\* fix: "while changed:", one iteration
Fix ==
    /\ tmpl.pc = "fix"
    /\ tmpl.changed
    /\ tmpl' = fix_iteration(tmpl)
    /\ UNCHANGED <<gen, made, dumped, expanded>>
    /\ UNCHANGED <<matchVars, rewriteVars, visitVars>>

\* fix: "return value"; back in visit_Expr's generic_visit the Expr holds
\* the new value
FixReturn ==
    /\ tmpl.pc = "fix"
    /\ ~tmpl.changed
    /\ tmpl' = [tmpl EXCEPT !.pc = "done",
                            !.out = IF tmpl.kind = "Expr" THEN Expr(tmpl.value)
                                    ELSE tmpl.value]
    /\ UNCHANGED <<gen, made, dumped, expanded>>
    /\ UNCHANGED <<matchVars, rewriteVars, visitVars>>

\* visit_Expr on Expr(Name(id)): a '<c>' rule gives new_code, returned as
\* it is, or visited when repeat (one more visit_Expr on the stack, a
\* RuntimeError of the interpreter at its recursion limit); without a rule
\* generic_visit goes to visit_Name on the value
visit_Expr ==
    /\ tmpl.pc = "visit_Expr"
    /\ tmpl' =
          IF ~IsNone(subst_get(tmpl.subst.code, NameId(tmpl.value.f[1])))
          THEN IF ~tmpl.repeat
               THEN [tmpl EXCEPT !.pc = "done", !.subs = @ + 1,
                        !.out = subst_get(tmpl.subst.code, NameId(tmpl.value.f[1]))]
               ELSE IF tmpl.depth + 1 >= RecursionLimit
               THEN [tmpl EXCEPT !.pc = "raised", !.subs = @ + 1,
                        !.err = "RuntimeError: maximum recursion depth exceeded"]
               ELSE [tmpl EXCEPT !.depth = @ + 1, !.subs = @ + 1,
                        !.value = subst_get(tmpl.subst.code, NameId(tmpl.value.f[1]))]
          ELSE [tmpl EXCEPT !.pc = "fix", !.fixing = "Name",
                            !.value = tmpl.value.f[1], !.changed = TRUE]
    /\ UNCHANGED <<gen, made, dumped, expanded>>
    /\ UNCHANGED <<matchVars, rewriteVars, visitVars>>

----------------------------------------------------------------------------
(* VarExpander on its own: VarExpander.run(tree, {v: r}), as bindvar and    *)
(* normalize_repl call it.                                                  *)

ExpandVars == {<<"_", "X">>, <<"_", "Y">>}
ExpandRepls ==
    {Num(IntV(1)), IntV(1), StrV(<<"a">>), NoneV, Tuple(<<>>),
     Tuple(<<IntV(1), IntV(2)>>), PatVar(<<"_", "Y">>),
     BinOp(PatVar(<<"_", "X">>), Add, Num(IntV(1)))}
ExpandTrees ==
    {PatVar(<<"_", "X">>), Num(IntV(1)), Num(PatVar(<<"_", "X">>)),
     BinOp(PatVar(<<"_", "X">>), Add, PatVar(<<"_", "Y">>)),
     BinOp(PatVar(<<"_", "X">>), Mult, PatVar(<<"_", "X">>)),
     Tuple(<<PatVar(<<"_", "X">>)>>),
     Tuple(<<PatVar(<<"_", "X">>), IntV(1)>>),
     Tuple(<<PatVar(<<"_", "Y">>), PatVar(<<"_", "X">>)>>),
     Module(Tuple(<<Expr(PatVar(<<"_", "X">>)), Pass>>)),
     Module(Tuple(<<>>))}

ExpandInit ==
    expanded = [pc |-> "start", tree |-> NoneV, var |-> <<>>, repl |-> NoneV,
                out |-> NoneV]

\* VarExpander.run(tree, {var: repl})
Expand ==
    /\ expanded.pc = "start"
    /\ \E tree \in ExpandTrees, var \in ExpandVars, repl \in ExpandRepls :
          expanded' = [pc |-> "done", tree |-> tree, var |-> var, repl |-> repl,
                       out |-> VarExpander_process(DictSet(EmptyDict, var, repl), tree)]
    /\ UNCHANGED <<gen, made, dumped, tmpl>>
    /\ UNCHANGED <<matchVars, rewriteVars, visitVars>>

ToolInit ==
    /\ GenInit
    /\ MadeInit
    /\ DumpInit
    /\ TmplInit
    /\ ExpandInit

Init == MatchInit /\ RewriteInit /\ VisitInit /\ ToolInit

Next == MakePatterns \/ LoopStep \/ LoopFail \/ Return

Spec == Init /\ [][Next]_vars

NextRewrite == Construct \/ Process

SpecRewrite == Init /\ [][NextRewrite]_vars

NextVisit ==
    \/ Setup
    \/ \E p \in {1} :
          \/ Run(p)
          \/ ProcessAgain(p)
          \/ NodeVisit(p)
          \/ SeqVisit(p)
          \/ VisitOther(p)
          \/ LoopResult(p)
          \/ LoopEnd(p)
          \/ HandlerReturn(p)
          \/ VisitReturn(p)
          \/ PatternVisit(p)
          \/ PatternReturn(p)
          \/ SubstitutorVisit(p)
          \/ ProcessReturn(p)
          \/ Unwind(p)

SpecVisit == Init /\ [][NextVisit]_vars

\* two runs and a match over one tree, their steps in any order
NextPair ==
    \/ SetupPair
    \/ MatchShared
    \/ LoopStep
    \/ LoopFail
    \/ Return
    \/ \E p \in {1, 2} :
          \/ RunPair(p)
          \/ NodeVisit(p)
          \/ SeqVisit(p)
          \/ VisitOther(p)
          \/ LoopResult(p)
          \/ LoopEnd(p)
          \/ HandlerReturn(p)
          \/ VisitReturn(p)
          \/ PatternVisit(p)
          \/ PatternReturn(p)
          \/ SubstitutorVisit(p)
          \/ ProcessReturn(p)
          \/ Unwind(p)

SpecPair == Init /\ [][NextPair]_vars

NextAsdl == FromAsdl \/ VisitType \/ ImporterReturn \/ CreateNode \/ PatchKinds \/ ReturnLang

SpecAsdl == Init /\ [][NextAsdl]_vars

NextTyped == Struct_new \/ SetField \/ Constructed
SpecTyped == Init /\ [][NextTyped]_vars

NextDump == Dump \/ Eval
SpecDump == Init /\ [][NextDump]_vars

NextTmpl == Templater_run \/ Fix \/ FixReturn \/ visit_Expr
SpecTmpl == Init /\ [][NextTmpl]_vars

NextExpand == Expand
SpecExpand == Init /\ [][NextExpand]_vars


----------------------------------------------------------------------------
(* What the claims speak of *)

\* the ids of the pattern variables in a tree
RECURSIVE VarsOf(_)
VarsOf(t) ==
    IF IsPatVar(t) THEN {PatVarId(t)}
    ELSE UNION {VarsOf(t.f[i]) : i \in 1..Len(t.f)}

Occurs(var, t) == var \in VarsOf(t)

HasWildcard(t) == \E id \in VarsOf(t) : is_wildname(id)

\* t with every variable of sigma's domain replaced, where it stands, by
\* the tree sigma binds it to
RECURSIVE Subst(_, _)
Subst(sigma, t) ==
    IF IsPatVar(t)
    THEN IF PatVarId(t) \in DOMAIN sigma THEN sigma[PatVarId(t)] ELSE t
    ELSE [t EXCEPT !.f = [i \in 1..Len(t.f) |-> Subst(sigma, t.f[i])]]

Unifies(sigma, a, b) == Subst(sigma, a) = Subst(sigma, b)

\* the variable-free values a unifier is looked for among
GroundValues ==
    {IntV(n) : n \in 1..MaxInt}
        \cup {NoneV, Tuple(<<>>), Tuple(<<IntV(1)>>), Num(IntV(1))}

Unifiable(a, b) ==
    \E sigma \in [VarsOf(a) \cup VarsOf(b) -> GroundValues] : Unifies(sigma, a, b)

Terminated == pc \in {"done", "failed"}

\* C1: when match(tree1, tree2) returns a substitution, replacing its
\* variables in both trees by their bound trees gives two equal trees
\* (stated for trees without wildcards, which bind nothing)
C1_Soundness ==
    (pc = "done" /\ ~HasWildcard(tree1) /\ ~HasWildcard(tree2))
        => Unifies(result, tree1, tree2)

\* C2: when some substitution makes tree1 and tree2 equal, match does not
\* fail
C2_Completeness ==
    (pc = "failed" /\ ~HasWildcard(tree1) /\ ~HasWildcard(tree2))
        => ~Unifiable(tree1, tree2)

\* C3: after every iteration of the worklist loop and in the returned
\* mapping, no bound variable occurs in a bound tree or a pending equation
C3_Idempotent ==
    pc \in {"loop", "done"} =>
        \A key \in DOMAIN result :
            /\ \A j \in DOMAIN result : ~Occurs(key, result[j])
            /\ \A i \in 1..Len(eqs) :
                ~Occurs(key, eqs[i].lhs) /\ ~Occurs(key, eqs[i].rhs)

\* C4: match(tree1, tree2) succeeds iff match(tree2, tree1) does, and then
\* each of the two substitutions makes tree1 and tree2 equal
C4_SameOutcome ==
    Terminated => (pc = "done" <=> match(tree2, tree1).matched)

C4_Symmetry ==
    /\ C4_SameOutcome
    /\ (pc = "done" /\ ~HasWildcard(tree1) /\ ~HasWildcard(tree2)) =>
          /\ Unifies(result, tree1, tree2)
          /\ Unifies(match(tree2, tree1).mapping, tree1, tree2)

\* C5: an equation of a variable and a tree that holds the variable as a
\* proper subterm fails as circular, no variable is ever bound to a tree
\* that holds it, and a variable against itself passes and binds nothing
C5_OccursCheck ==
    [][ /\ (pc = "loop" /\ Len(eqs) > 0) =>
            LET top == eqs[Len(eqs)]
                var == IF IsPatVar(top.lhs) THEN top.lhs ELSE top.rhs
                other == IF IsPatVar(top.lhs) THEN top.rhs ELSE top.lhs
            IN  /\ (IsPatVar(var) /\ other # var /\ Occurs(PatVarId(var), other))
                      => (pc' = "failed" /\ failure' = "circular")
                /\ (IsPatVar(var) /\ other = var)
                      => /\ pc' = "loop"
                         /\ result' = result
                         /\ eqs' = SubSeq(eqs, 1, Len(eqs) - 1)
        /\ \A key \in DOMAIN result' : ~Occurs(key, result'[key])
      ]_vars

C5_Witness ==
    /\ pc = "failed"
    /\ failure = "circular"
    /\ tree1 = PatVar(<<"_", "X">>)
    /\ tree2 = BinOp(PatVar(<<"_", "X">>), Add, Num(IntV(1)))

\* the number of values a tree is made of
RECURSIVE TreeSize(_)
RECURSIVE SumSizes(_, _)
SumSizes(ts, i) == IF i > Len(ts) THEN 0 ELSE TreeSize(ts[i]) + SumSizes(ts, i + 1)
TreeSize(t) == 1 + SumSizes(t.f, 1)

\* the worklist's variables, and its size
WorklistVars == UNION {VarsOf(eqs[i].lhs) \cup VarsOf(eqs[i].rhs) : i \in 1..Len(eqs)}
WorklistSize ==
    SumSizes([i \in 1..Len(eqs) |-> eqs[i].lhs], 1)
        + SumSizes([i \in 1..Len(eqs) |-> eqs[i].rhs], 1)

\* C6: raw_match's loop ends for every pair of trees: every iteration that
\* does not end it takes a variable off the worklist or, with the same
\* variables, makes the worklist smaller, so no run iterates forever
C6_Terminates ==
    [][ (pc = "loop" /\ pc' = "loop") =>
            /\ WorklistVars' \subseteq WorklistVars
            /\ \/ WorklistVars' # WorklistVars
               \/ WorklistSize' < WorklistSize
      ]_vars

C6_Witness == pc = "done" /\ Cardinality(DOMAIN result) >= 2

\* renaming apart: every wildcard of t under a name no PatMaker produces
RECURSIVE RenameWildcards(_)
RenameWildcards(t) ==
    IF IsPatVar(t)
    THEN IF is_wildname(PatVarId(t)) THEN PatVar(PatVarId(t) \o <<"'">>) ELSE t
    ELSE [t EXCEPT !.f = [i \in 1..Len(t.f) |-> RenameWildcards(t.f[i])]]

\* C7: no wildcard is a key of the returned substitution, and the
\* wildcards of the two patterns, made by separate PatMaker runs, do not
\* constrain each other: the match ends as it does with tree2's wildcards
\* renamed apart from tree1's
C7_Wildcards ==
    /\ pc = "done" => \A key \in DOMAIN result : ~is_wildname(key)
    /\ Terminated =>
          (pc = "done" <=> match(tree1, RenameWildcards(tree2)).matched)

\* C8: match(t, t) for a tree t without pattern variables succeeds with
\* the empty substitution
C8_SelfMatch ==
    (Terminated /\ tree1 = tree2 /\ VarsOf(tree1) = {})
        => (pc = "done" /\ result = EmptyDict)

C8_Witness ==
    /\ pc = "done"
    /\ tree1 = tree2
    /\ tree1 = BinOp(IntV(1), Add, Num(NoneV))

\* the paths of the values of t, and the value of t at a path
RECURSIVE Paths(_)
Paths(t) ==
    {<<>>} \cup UNION {{<<i>> \o q : q \in Paths(t.f[i])} : i \in 1..Len(t.f)}

RECURSIVE At(_, _)
At(t, p) == IF Len(p) = 0 THEN t ELSE At(t.f[p[1]], Tail(p))

Below(p, q) == Len(p) < Len(q) /\ SubSeq(q, 1, Len(p)) = p

\* where in the log the visit of the value at path q returns, and its value
ReturnIdx(q) == CHOOSE n \in DOMAIN rw_log : rw_log[n].ev = "return" /\ rw_log[n].path = q
Returned(q) == rw_log[ReturnIdx(q)].val

\* the value at path p of the input, rebuilt from what the visits of its
\* children returned
ChildRewritten(p) ==
    LET orig == At(rw_tree, p)
    IN  [orig EXCEPT !.f = [i \in 1..Len(orig.f) |-> Returned(Append(p, i))]]

\* C9: a rule is matched against a node only after every descendant of
\* the node was visited and its visit returned, and the tree handed to
\* match is the node rebuilt from what the children's visits returned
C9_BottomUp ==
    rw_pc = "done" =>
        \A n \in DOMAIN rw_log :
            rw_log[n].ev = "match" =>
                LET p == rw_log[n].path
                IN  /\ \A q \in Paths(rw_tree) :
                          Below(p, q) =>
                              /\ \E a \in 1..(n - 1) :
                                    rw_log[a].ev = "visit" /\ rw_log[a].path = q
                              /\ \E b \in 1..(n - 1) :
                                    rw_log[b].ev = "return" /\ rw_log[b].path = q
                    /\ \A m \in DOMAIN rw_log :
                          Below(p, rw_log[m].path) => m < n
                    /\ rw_log[n].tree = ChildRewritten(p)

\* 1 + (0 + 1) under the addition rule: the root is matched as 1 + 1
C9_Witness ==
    /\ rw_pc = "done"
    /\ rw_tree = BinOp(Num(IntV(1)), Add, BinOp(Num(IntV(0)), Add, Num(IntV(1))))
    /\ rw_rules = <<Rule(BinOp(Num(PatX), Add, Num(PatY)), "add", NoneV)>>
    /\ rw_out = Num(IntV(2))
    /\ \E n \in DOMAIN rw_log :
          /\ rw_log[n].ev = "match"
          /\ rw_log[n].path = <<>>
          /\ rw_log[n].tree = BinOp(Num(IntV(1)), Add, Num(IntV(1)))

\* rule i matches the tree and its replacement function returns a tree
IsConcrete(v) == v # NoneV /\ v # NotImplementedV
Concrete(i, tree) ==
    LET mapping == match(rw_rules[i].pattern, tree)
    IN  mapping.matched /\ IsConcrete(ReplCall(rw_rules[i], mapping.mapping))

\* the rules matched at path p, in the order of the calls
RECURSIVE MatchedRules(_, _)
MatchedRules(p, n) ==
    IF n > Len(rw_log) THEN <<>>
    ELSE IF rw_log[n].ev = "match" /\ rw_log[n].path = p
    THEN <<rw_log[n].rule>> \o MatchedRules(p, n + 1)
    ELSE MatchedRules(p, n + 1)

\* C10: at each node the rules are tried in list order; the result is the
\* tree returned by the first rule that matches and whose replacement
\* function returns a concrete tree, no later rule's replacement function
\* is called for the node, and when no rule matches the result is the
\* child-rewritten node
C10_RuleOrder ==
    rw_pc = "done" =>
        \A p \in Paths(rw_tree) :
            LET tree == ChildRewritten(p)
                tried == MatchedRules(p, 1)
                concrete == {i \in 1..Len(rw_rules) : Concrete(i, tree)}
            IN  /\ \A k \in 1..Len(tried) : tried[k] = k
                /\ concrete # {} =>
                      LET first == CHOOSE i \in concrete : \A j \in concrete : i <= j
                      IN  /\ Returned(p) = ReplCall(rw_rules[first],
                                              match(rw_rules[first].pattern, tree).mapping)
                          /\ \A n \in DOMAIN rw_log :
                                (rw_log[n].ev = "repl" /\ rw_log[n].path = p)
                                    => rw_log[n].rule <= first
                /\ (\A i \in 1..Len(rw_rules) :
                        ~match(rw_rules[i].pattern, tree).matched)
                      => Returned(p) = tree

\* v is t or a value inside t
RECURSIVE Holds(_, _)
Holds(t, v) == t = v \/ \E i \in 1..Len(t.f) : Holds(t.f[i], v)

\* C11: when a rule's replacement function returns NotImplemented the rule
\* is skipped: the next rule, if there is one, is matched against the same
\* node, and NotImplemented is nowhere in the tree process() returns
C11_Defer ==
    rw_pc = "done" =>
        /\ \A n \in DOMAIN rw_log :
              (/\ rw_log[n].ev = "repl"
               /\ rw_log[n].val = NotImplementedV
               /\ rw_log[n].rule < Len(rw_rules))
                  => \E m \in DOMAIN rw_log :
                        /\ m > n
                        /\ rw_log[m].ev = "match"
                        /\ rw_log[m].path = rw_log[n].path
                        /\ rw_log[m].rule = rw_log[n].rule + 1
                        /\ rw_log[m].tree = rw_log[n].tree
        /\ ~Holds(rw_out, NotImplementedV)

\* C12: when a rule matches a node and its replacement function returns
\* None, no later rule is matched against the node, and the visit of the
\* node returns the child-rewritten node the rule was matched against
C12_NoValue ==
    rw_pc = "done" =>
        \A n \in DOMAIN rw_log :
            (rw_log[n].ev = "repl" /\ rw_log[n].val = NoneV) =>
                /\ \A m \in DOMAIN rw_log :
                      (m > n /\ rw_log[m].path = rw_log[n].path)
                          => rw_log[m].ev # "match"
                /\ Returned(rw_log[n].path) = rw_log[n].tree

----------------------------------------------------------------------------
(* What the claims about the visitors speak of *)

\* the visitor the claims follow, and its visit of the tree
V == trav[1]
Ended == V.mode \in {"done", "failed"}

\* the value at path p below the value x
RECURSIVE ValAt(_, _, _)
ValAt(hp, x, p) == IF Len(p) = 0 THEN x ELSE ValAt(hp, hp[x.v].f[p[1]], Tail(p))

\* the paths of the values of x, and the objects x is made of
ValPaths(hp, x) == Paths(Resolve(hp, x))
ObjectsOf(hp, x) == {y \in {ValAt(hp, x, q) : q \in ValPaths(hp, x)} : IsRef(y)}

\* p is q or a path above q
UpTo(p, q) == Len(p) <= Len(q) /\ SubSeq(q, 1, Len(p)) = p

\* handlers that do not call visit or generic_visit
LeafHandlers == {"none", "self", "copy", "change", "delete", "double", "raise"}

NoOpHandlers(cfg) == \A c \in DOMAIN cfg.handlers : cfg.handlers[c] \in {"", "none"}

ChangedLeaves ==
    {V.log[n].path : n \in {m \in DOMAIN V.log :
        /\ V.log[m].ev = "return"
        /\ V.log[m].h \in LeafHandlers
        /\ nochange(V.cfg, heap, V.log[m].node, V.log[m].val) # V.log[m].node}}

\* handlers that replace a node by a node or recurse, nothing else
NodeForNode(cfg) ==
    /\ cfg.handlers.Name \in {"", "none", "self", "copy", "change"}
    /\ cfg.handlers.Expr \in {"", "none", "generic"}
    /\ cfg.handlers.Pass \in {"", "none"}

\* C14: when a transformer changes exactly one leaf of the tree, every
\* node and sequence of the result that is not on the path from the root
\* to that leaf is the very object of the original tree at the same place,
\* and the nodes and sequences on the path above the leaf are new objects
\* (the replacement of the leaf is what its handler returned)
C14_Sharing ==
    (/\ V.mode = "done"
     /\ V.cfg.cls \in {"NodeTransformer", "AdvNodeTransformer"}
     /\ NodeForNode(V.cfg)
     /\ Cardinality(ChangedLeaves) = 1)
        => LET leaf == CHOOSE q \in ChangedLeaves : TRUE
           IN  \A q \in {r \in ValPaths(heap, V.out) : r = leaf \/ ~UpTo(leaf, r)} :
                  IF UpTo(q, leaf)
                  THEN /\ ValAt(heap, V.out, q) # ValAt(heap, vroot, q)
                       /\ q # leaf => /\ IsRef(ValAt(heap, V.out, q))
                                      /\ ValAt(heap, V.out, q) \notin ObjectsOf(heap, vroot)
                  ELSE /\ q \in ValPaths(heap, vroot)
                       /\ ValAt(heap, V.out, q) = ValAt(heap, vroot, q)

\* Name('a') is changed in a module of two statements: the other statement
\* is shared
C14_Witness ==
    /\ V.mode = "done"
    /\ V.cfg.cls = "NodeTransformer"
    /\ V.cfg.handlers = [Name |-> "change", Expr |-> "", Pass |-> ""]
    /\ Resolve(heap, vroot) = Module(Tuple(<<Expr(Name(<<"a">>)), Expr(Name(<<"b">>))>>))
    /\ Resolve(heap, V.out) = Module(Tuple(<<Expr(Name(<<"c">>)), Expr(Name(<<"b">>))>>))
    /\ ValAt(heap, V.out, <<1, 2>>) = ValAt(heap, vroot, <<1, 2>>)
    /\ ValAt(heap, V.out, <<1, 1>>) \notin ObjectsOf(heap, vroot)

\* C15: change is detected by identity alone: at the end of generic_visit
\* and of seq_visit the original node or sequence is returned iff every
\* field value's or item's result is the very object that was there; if
\* one is not, were it equal to it, the parent is built anew
C15_Identity ==
    [][ (V.mode = "loop" /\ V'.mode = "return" /\ IsTransformer(V.cfg)) =>
            LET fr == Top(V)
                items == heap[fr.obj.v].f
                identical == \A i \in 1..Len(items) : fr.vals[i] = items[i]
            IN  /\ (V'.arg = fr.obj) <=> identical
                /\ ~identical => \/ V'.arg = EmptyTupleRef
                                 \/ IsRef(V'.arg) /\ V'.arg.v > Len(heap)
      ]_vars

\* every Name is replaced by an equal copy: the result is equal to the
\* tree and no object of it but the Load nodes is shared
C15_Witness ==
    /\ V.mode = "done"
    /\ V.cfg.cls = "NodeTransformer"
    /\ V.cfg.handlers = [Name |-> "copy", Expr |-> "", Pass |-> ""]
    /\ Resolve(heap, vroot) = Module(Tuple(<<Expr(Name(<<"a">>))>>))
    /\ Resolve(heap, V.out) = Resolve(heap, vroot)
    /\ V.out # vroot
    /\ ValAt(heap, V.out, <<1>>) # ValAt(heap, vroot, <<1>>)

\* C16: at the end of a transformer's seq_visit over a sequence of n
\* nodes: if every item's result is the empty sequence, the result is the
\* empty sequence; if exactly one item's result is a sequence of two and
\* every other item's result is the item, the result has n + 1 items: the
\* two in the place of the item they replace, the others in their order
C16_Splice ==
    [][ (/\ V.mode = "loop"
         /\ V'.mode = "return"
         /\ IsTransformer(V.cfg)
         /\ heap[Top(V).obj.v].k = "seq") =>
            LET fr == Top(V)
                items == heap[fr.obj.v].f
                n == Len(items)
                doubled == {k \in 1..n : IsSeqRef(heap, fr.vals[k])
                                            /\ Len(heap[fr.vals[k].v].f) = 2}
            IN  /\ (\A i \in 1..n : fr.vals[i] = EmptyTupleRef)
                      => V'.arg = EmptyTupleRef
                /\ (/\ Cardinality(doubled) = 1
                    /\ \A i \in (1..n) \ doubled : fr.vals[i] = items[i])
                      => LET k == CHOOSE d \in doubled : TRUE
                         IN  /\ IsSeqRef(heap', V'.arg)
                             /\ Len(heap'[V'.arg.v].f) = n + 1
                             /\ heap'[V'.arg.v].f =
                                   SubSeq(items, 1, k - 1) \o heap[fr.vals[k].v].f
                                       \o SubSeq(items, k + 1, n)
      ]_vars

\* visit_Expr returns (node, node): (Pass, Expr) becomes (Pass, Expr, Expr)
C16_Witness ==
    /\ V.mode = "done"
    /\ V.cfg.cls = "NodeTransformer"
    /\ V.cfg.handlers = [Name |-> "", Expr |-> "generic_double", Pass |-> ""]
    /\ Resolve(heap, vroot) = Tuple(<<Pass, Expr(Name(<<"a">>))>>)
    /\ Resolve(heap, V.out) = Tuple(<<Pass, Expr(Name(<<"a">>)), Expr(Name(<<"a">>))>>)

\* C17: NodeTransformer.process, sub and PatternTransformer.process never
\* change an object: at every step each object there is keeps its class and
\* its field values or items, so the input tree and its descendants are as
\* before the call and every change is in new objects
C17_NoMutation ==
    [][ /\ Len(heap') >= Len(heap)
        /\ \A a \in 1..Len(heap) : heap'[a] = heap[a]
        /\ heap # <<>> => Resolve(heap', vroot') = Resolve(heap, vroot)
      ]_vars

\* 0 + 1 is folded to Num(1) by the addition rule; the input is as it was
C17_Witness ==
    /\ V.mode = "done"
    /\ V.cfg.cls = "PatternTransformer"
    /\ Resolve(heap, vroot) = BinOp(Num(IntV(0)), Add, Num(IntV(1)))
    /\ Resolve(heap, V.out) = Num(IntV(1))

\* the places in the log of the visits of the values right below path p
ChildVisits(log, p) ==
    {n \in DOMAIN log : /\ log[n].ev = "visit"
                        /\ Len(log[n].path) = Len(p) + 1
                        /\ UpTo(p, log[n].path)}

\* C18: NodeVisitor.visit on a node calls the handler named after the
\* node's class if there is one and generic_visit otherwise; any other
\* value that is not a sequence is returned as it is; generic_visit and
\* seq_visit visit the field values and items in order, none left out
\* (Substitutor.visit set aside, which returns a replacement without
\* NodeVisitor.visit); below a node whose handler calls neither visit nor
\* generic_visit nothing is visited
C18_Dispatch ==
    [][ /\ (InSuperVisit(V) /\ IsNodeRef(heap, V.arg)) =>
              LET cls == heap[V.arg.v].t
                  last == V'.log[Len(V.log) + 2]
              IN  /\ Len(V'.log) >= Len(V.log) + 2
                  /\ V'.log[Len(V.log) + 1].ev = "visit"
                  /\ last.node = V.arg
                  /\ IF cls \in DOMAIN V.cfg.handlers /\ V.cfg.handlers[cls] # ""
                     THEN last.ev = "handler" /\ last.h = V.cfg.handlers[cls]
                     ELSE last.ev = "generic_visit"
        /\ (InSuperVisit(V) /\ ~IsRef(V.arg)) =>
              (V'.mode = "return" /\ V'.arg = V.arg /\ V'.frames = V.frames)
        /\ \A n \in DOMAIN V'.log :
              LET e == V'.log[n]
              IN  /\ (/\ e.ev = "visit" /\ Len(e.path) > 0 /\ e.path[Len(e.path)] > 1
                       /\ V'.cfg.cls # "Substitutor") =>
                        \E m \in 1..(n - 1) :
                            /\ V'.log[m].ev = "visit"
                            /\ V'.log[m].path =
                                  [e.path EXCEPT ![Len(e.path)] = @ - 1]
                  /\ (e.ev = "visit") =>
                        \A m \in 1..(n - 1) :
                            V'.log[m].ev = "visit" => V'.log[m].path # e.path
                  /\ (e.ev = "handler" /\ e.h \in LeafHandlers) =>
                        \A m \in DOMAIN V'.log :
                            V'.log[m].ev = "visit" =>
                                ~(UpTo(e.path, V'.log[m].path) /\ V'.log[m].path # e.path)
        /\ (V.mode = "loop" /\ V'.mode = "return" /\ V.cfg.cls # "Substitutor") =>
              Cardinality(ChildVisits(V.log, Top(V).path))
                  = Len(heap[Top(V).obj.v].f)
      ]_vars

\* a NodeVisitor with handlers for Name and Pass on a module of two
\* statements: both handlers are called
C18_Witness ==
    /\ V.mode = "done"
    /\ V.cfg.cls = "NodeVisitor"
    /\ V.cfg.handlers = [Name |-> "none", Expr |-> "", Pass |-> "none"]
    /\ Resolve(heap, vroot) = Module(Tuple(<<Expr(Name(<<"a">>)), Pass>>))
    /\ Cardinality({n \in DOMAIN V.log : V.log[n].ev = "handler"}) = 2
    /\ Cardinality({n \in DOMAIN V.log : V.log[n].ev = "generic_visit"}) = 2

\* the entry of _visit_stack for the node at the first k steps of path p
\* of the tree: the field of the parent it is under, through a sequence or
\* not, and its index in that sequence
EntryAt(p, k) ==
    LET at(j) == ValAt(heap, vroot, SubSeq(p, 1, j))
        field_of(j) == IF j = 0 THEN "" ELSE Fields(heap[at(j - 1).v].t)[p[j]]
    IN  IF k = 0
        THEN Entry(at(0), "", -1)
        ELSE IF IsNodeRef(heap, at(k - 1))
        THEN Entry(at(k), field_of(k), -1)
        ELSE Entry(at(k), field_of(k - 1), p[k] - 1)

\* the chain of the nodes from the root to the node at path p
Chain(p) ==
    LET nodes == SelectSeq([j \in 1..(Len(p) + 1) |-> j - 1],
                           LAMBDA k : IsNodeRef(heap, ValAt(heap, vroot, SubSeq(p, 1, k))))
    IN  [j \in 1..Len(nodes) |-> EntryAt(p, nodes[j])]

\* the calls of node_visit under way
NodeVisits(st) == SelectSeq(st.frames, LAMBDA fr : fr.fk = "visit")

\* C19: in AdvNodeVisitor.process, when a handler is called for a node,
\* _visit_stack is the chain of the nodes from the root to that node, the
\* last one last, each with the field of its parent it was reached by
\* (None at the root) and its index in the sequence it was reached in
\* (None outside a sequence); the stack has one entry for each node_visit
\* under way, so every push has its pop, and it is empty when process
\* returns
C19_AncestorStack ==
    IsAdv(V.cfg) =>
        /\ \A n \in DOMAIN V.log :
              V.log[n].ev = "handler" => V.log[n].stack = Chain(V.log[n].path)
        /\ V.mode \notin {"idle", "raise", "failed"} =>
              Len(V.vstack) = Len(NodeVisits(V))
        /\ V.mode = "done" => V.vstack = <<>>

\* what a caller and the handlers see of a run: how it ended, the result
\* as a tree and the places where it is an object of the input, and the
\* calls made with their stacks
Seen(st, hp, tree) ==
    [mode |-> st.mode,
     err |-> st.err,
     out |-> Resolve(hp, st.out),
     shared |-> {q \in ValPaths(hp, st.out) :
                    ValAt(hp, st.out, q) \in ObjectsOf(hp, tree)},
     calls |-> [n \in DOMAIN st.log |->
                  [ev |-> st.log[n].ev, path |-> st.log[n].path, h |-> st.log[n].h,
                   node |-> Resolve(hp, st.log[n].node),
                   val |-> Resolve(hp, st.log[n].val),
                   stack |-> st.log[n].stack]]]

\* the same run with nothing else going on, on the tree built anew
SeenAlone(cfg, stored) ==
    Seen(NodeVisitor_run(cfg, stored.heap, stored.val).st,
         NodeVisitor_run(cfg, stored.heap, stored.val).heap, stored.val)

AsAlone(st, hp, tree) ==
    Seen(st, hp, tree) = SeenAlone(st.cfg, Store(EmptyHeap, Resolve(hp, tree)))

\* C20: two runs (visitor, transformer, PatternTransformer or Substitutor,
\* each on an instance of its own) and a match over one shared tree, their
\* steps in any order: no step changes an object of the tree, a run that
\* ends has ended, returned and called its handlers as the same run does
\* with nothing else going on, and so has the match
C20_NoInterference ==
    [][ /\ heap # <<>> =>
              /\ vroot' = vroot
              /\ \A x \in ObjectsOf(heap, vroot) : heap'[x.v] = heap[x.v]
        /\ \A p \in {1, 2} :
              (trav'[p].mode \in {"done", "failed"} /\ trav[p].mode \notin {"done", "failed"})
                  => AsAlone(trav'[p], heap', vroot')
        /\ (pc' \in {"done", "failed"} /\ pc = "loop") =>
              /\ (pc' = "done") = match(tree1, Resolve(heap, vroot)).matched
              /\ pc' = "done" => result' = match(tree1, Resolve(heap, vroot)).mapping
      ]_vars

\* two transformers have built their results in turns: the second its
\* body after the first its body and before the first its Module; the
\* match is over too
C20_Witness ==
    /\ trav[1].mode = "done"
    /\ trav[2].mode = "done"
    /\ trav[1].cfg.cls = "NodeTransformer"
    /\ trav[2].cfg.cls = "AdvNodeTransformer"
    /\ Resolve(heap, vroot) = PairModule
    /\ Resolve(heap, trav[1].out) = Module(Tuple(<<Expr(Name(<<"c">>))>>))
    /\ ValAt(heap, trav[1].out, <<1>>).v < ValAt(heap, trav[2].out, <<1>>).v
    /\ ValAt(heap, trav[2].out, <<1>>).v < trav[1].out.v

\* the names of the items of an OrderedDict, in its order
Keys(d) == [i \in 1..Len(d) |-> d[i].k]

\* a sequence without the later occurrences of its elements
Dedup(names) ==
    SelectSeq([i \in 1..Len(names) |->
                  IF \E j \in 1..(i - 1) : names[j] = names[i] THEN "" ELSE names[i]],
              LAMBDA x : x # "")

\* the constructors' names of the first n definitions, in grammar order
RECURSIVE ConstructorNames(_, _)
ConstructorNames(dfns, n) ==
    IF n = 0 THEN <<>>
    ELSE ConstructorNames(dfns, n - 1)
            \o [j \in 1..Len(dfns[n].types) |-> dfns[n].types[j].name]

GenInfo == gen.pc \in {"create", "return", "done", "failed"}

\* C21: ASDLImporter.run returns the sum and product types first, in
\* grammar order, then the constructors in grammar order; in that order
\* nodes_from_asdl finds the base of every entry made before it (the sum for
\* a constructor, AST for a sum or a product), so no class fails on its
\* base; each class has its one base and the mapping returned holds AST
C21_GenerationOrder ==
    /\ GenInfo =>
          /\ Keys(gen.info) =
                Dedup([i \in 1..Len(gen.dfns) |-> gen.dfns[i].name]
                          \o ConstructorNames(gen.dfns, Len(gen.dfns)))
          /\ \A k \in 1..Len(gen.info) :
                \/ gen.info[k].v.base = "AST"
                \/ \E j \in 1..(k - 1) : gen.info[j].k = gen.info[k].v.base
    /\ gen.pc = "failed" => gen.k > Len(gen.info)
    /\ gen.pc = "done" =>
          /\ OrderedDict_has(gen.out, "AST")
          /\ \A k \in 1..Len(gen.info) :
                /\ OrderedDict_has(gen.out, gen.info[k].k)
                /\ OrderedDict_get(gen.out, gen.info[k].k).base = gen.info[k].v.base
                /\ OrderedDict_has(gen.out, gen.info[k].v.base)

\* the grammar of test_node.py: expr, num, Sum, Num, Unit
C21_Witness ==
    /\ gen.pc = "done"
    /\ Keys(gen.info) = <<"expr", "num", "Sum", "Num", "Unit">>
    /\ Keys(gen.out) = <<"AST", "expr", "num", "Sum", "Num", "Unit">>
    /\ OrderedDict_get(gen.out, "Sum").base = "expr"
    /\ OrderedDict_get(gen.out, "num").base = "AST"

\* the names a grammar defines, and the field types it uses
DefinedNames(dfns) ==
    {dfns[i].name : i \in 1..Len(dfns)}
        \cup {ConstructorNames(dfns, Len(dfns))[j] :
                j \in 1..Len(ConstructorNames(dfns, Len(dfns)))}

UsedTypes(dfns) ==
    UNION {{dfns[i].fields[j].type : j \in 1..Len(dfns[i].fields)}
             \cup UNION {{dfns[i].types[c].fields[j].type :
                            j \in 1..Len(dfns[i].types[c].fields)} :
                         c \in 1..Len(dfns[i].types)} :
           i \in 1..Len(dfns)}

\* the grammar names a field type that neither it nor primitive_types defines
NamesUnknownType ==
    /\ gen.pc # "start"
    /\ \E ft \in UsedTypes(gen.dfns) :
          ft \notin DefinedNames(gen.dfns) \cup gen.primitive_types \cup {"AST"}

\* the field types of the definitions that the importer keeps: of a
\* constructor, the last one of its name; of a product, the last type of its
\* name when no constructor has the name
KeptTypes(dfns) ==
    UNION {{dfns[i].fields[j].type : j \in 1..Len(dfns[i].fields)} :
             i \in {i \in 1..Len(dfns) :
                      /\ \A i2 \in (i + 1)..Len(dfns) : dfns[i2].name # dfns[i].name
                      /\ \A i2 \in 1..Len(dfns) : \A c2 \in 1..Len(dfns[i2].types) :
                            dfns[i2].types[c2].name # dfns[i].name}}
      \cup
    UNION {UNION {{dfns[i].types[c].fields[j].type :
                     j \in 1..Len(dfns[i].types[c].fields)} :
                  c \in {c \in 1..Len(dfns[i].types) :
                           /\ \A c2 \in (c + 1)..Len(dfns[i].types) :
                                 dfns[i].types[c2].name # dfns[i].types[c].name
                           /\ \A i2 \in (i + 1)..Len(dfns) :
                                 \A c2 \in 1..Len(dfns[i2].types) :
                                    dfns[i2].types[c2].name # dfns[i].types[c].name}} :
           i \in 1..Len(dfns)}

\* a definition that is kept names a field type that nothing defines
KeepsUnknownType ==
    /\ gen.pc # "start"
    /\ \E ft \in KeptTypes(gen.dfns) :
          ft \notin DefinedNames(gen.dfns) \cup gen.primitive_types \cup {"AST"}

\* C22 as stated: a grammar that names an unknown field type makes
\* nodes_from_asdl raise and return no mapping, whatever typed is
C22_Fatal == NamesUnknownType => (gen.pc # "done" /\ gen.out = <<>>)

\* C22 amended: with typed=True a grammar in which a definition that is
\* kept (not replaced by a later one of its name) names an unknown field
\* type makes nodes_from_asdl raise (KeyError, after the classes are made)
\* and return no mapping, and nothing else makes it raise; with typed=False
\* no field type is looked up and no call raises
C22_FatalTyped ==
    /\ (gen.typed /\ KeepsUnknownType) =>
          /\ gen.pc \notin {"return", "done"}
          /\ gen.out = <<>>
    /\ (gen.typed /\ gen.pc = "failed") => (KeepsUnknownType /\ gen.err = "KeyError")
    /\ ~gen.typed => gen.pc # "failed"

\* test_node.py's expr alone, typed: num is not defined, KeyError
C22_Witness ==
    /\ gen.pc = "failed"
    /\ gen.err = "KeyError"
    /\ gen.typed
    /\ Len(gen.dfns) = 1
    /\ gen.dfns[1].name = "expr"
    /\ Len(gen.lang) = 5
    /\ gen.out = <<>>

IsPatternTerm(x) == IsAST(x) /\ issubclass(x.t, "pattern")

\* C24: a pattern term is metasyntactic, so a type-checked construction
\* never raises on a field whose argument is a pattern term or a sequence
\* of pattern terms and instances of the field's type, and a field given a
\* pattern term holds that very term
C24_Bypass ==
    made.typed =>
       /\ made.pc = "raised" =>
             /\ ~IsPatternTerm(made.args[made.j])
             /\ ~(/\ made.fields[made.j].quant = "*"
                  /\ IsTuple(made.args[made.j])
                  /\ \A i \in 1..Len(made.args[made.j].f) :
                        \/ IsPatternTerm(made.args[made.j].f[i])
                        \/ isinstance(made.args[made.j].f[i], made.fields[made.j].kind))
       /\ made.pc = "done" =>
             \A j \in 1..Len(made.fields) :
                IsPatternTerm(made.args[j]) => made.stored[j] = made.args[j]

\* the place of the first token of text that is the identifier name (0: none)
FirstId(text, name) ==
    IF \E i \in 1..Len(text) : text[i] = Id(name)
    THEN CHOOSE i \in 1..Len(text) :
            text[i] = Id(name) /\ \A h \in 1..(i - 1) : text[h] # Id(name)
    ELSE 0

RECURSIVE chain_length(_, _, _, _)
chain_length(kind, subst, value, n) ==
    IF n = 0 \/ IsNone(fix_func(kind, subst, value)) THEN 0
    ELSE 1 + chain_length(kind, subst, fix_func(kind, subst, value), n - 1)

\* more successive results than there are values to go through: a cycle
ChainCap == Cardinality(Idents) + 2
FixCyclic ==
    /\ tmpl.kind \in {"Name", "Attribute", "FunctionDef"}
    /\ chain_length(tmpl.kind, tmpl.subst, tmpl.tree, ChainCap) = ChainCap

\* the '<c>' rules lead from the Expr back to an Expr already met
RECURSIVE code_chain(_, _, _)
code_chain(subst, id, n) ==
    IF n = 0 \/ IsNone(subst_get(subst.code, id)) THEN 0
    ELSE 1 + code_chain(subst, NameId(subst_get(subst.code, id).f[1]), n - 1)

CodeCyclic ==
    /\ tmpl.kind = "Expr"
    /\ code_chain(tmpl.subst, NameId(tmpl.tree.f[1]), ChainCap) = ChainCap

Bailout == "RuntimeError: Exceeded bailout in Templater"

C27_NoLimit ==
    (tmpl.pc # "start" /\ IsNone(tmpl.bailout)
        /\ ~(tmpl.repeat /\ (FixCyclic \/ CodeCyclic))) =>
       tmpl.pc # "raised"

\* C28: with repeat, a chain of k substitutions, 1 <= k <= bailout, that
\* ends in a fixpoint completes without error; without repeat func is applied once
\* and no bailout >= 1 makes the call raise
C28_Allowed ==
    (tmpl.kind \in {"Name", "Attribute", "FunctionDef"} /\ ~IsNone(tmpl.bailout)) =>
       /\ (/\ tmpl.repeat
           /\ chain_length(tmpl.kind, tmpl.subst, tmpl.tree, ChainCap) >= 1
           /\ chain_length(tmpl.kind, tmpl.subst, tmpl.tree, ChainCap) <= tmpl.bailout.v
           /\ ~FixCyclic) => tmpl.pc # "raised"
       /\ (~tmpl.repeat /\ tmpl.bailout.v >= 1) =>
             /\ tmpl.pc # "raised"
             /\ tmpl.calls <= 1
             /\ tmpl.pc = "done" => tmpl.calls = 1

\* C29: VarExpander with {v: r} returns the tree with every PatVar(v)
\* replaced by r and nothing else changed, whatever r is; a sequence
\* keeps its length
C29_InPlace ==
    expanded.pc = "done" =>
       /\ expanded.out = Subst(DictSet(EmptyDict, expanded.var, expanded.repl),
                               expanded.tree)
       /\ IsTuple(expanded.tree) =>
             /\ IsTuple(expanded.out)
             /\ Len(expanded.out.f) = Len(expanded.tree.f)

\* what sub's replacement gives for the subtree t: None without a match
SubRepl(rule, t) ==
    IF match(rule.pattern, t).matched
    THEN ReplCall(rule, match(rule.pattern, t).mapping)
    ELSE NoneV

\* t with its outermost replaced subtrees replaced
RECURSIVE Outermost(_, _)
Outermost(rule, t) ==
    IF ~IsNone(SubRepl(rule, t)) THEN SubRepl(rule, t)
    ELSE [t EXCEPT !.f = [i \in 1..Len(t.f) |-> Outermost(rule, t.f[i])]]

\* no subtree above the path p is replaced
Outside(rule, tree, p) ==
    \A n \in 0..(Len(p) - 1) : IsNone(SubRepl(rule, At(tree, SubSeq(p, 1, n))))

\* C30: sub(pattern, repl, tree) returns the tree with every outermost
\* subtree that matches pattern and for which repl returns a value replaced
\* by that value; the traversal goes on inside a subtree (super().visit is
\* called on it) exactly when neither it nor a subtree above it is
\* replaced: nothing inside a replaced subtree is examined, and a subtree
\* that does not match, or for which repl returns None, is searched
C30_Outermost ==
    (V.cfg.cls = "Substitutor" /\ V.mode = "done") =>
       /\ Resolve(heap, V.out) = Outermost(V.cfg.patrepls[1], Resolve(heap, vroot))
       /\ \A p \in Paths(Resolve(heap, vroot)) :
             (\E n \in 1..Len(V.log) : V.log[n].ev = "visit" /\ V.log[n].path = p)
                <=> /\ Outside(V.cfg.patrepls[1], Resolve(heap, vroot), p)
                    /\ IsNone(SubRepl(V.cfg.patrepls[1], At(Resolve(heap, vroot), p)))

\* testSub: 1 + ... is skipped (foo returns None), 2 + ... is replaced by
\* Num(20), and nothing in 3 + 4 is visited
C30_Witness ==
    /\ V.cfg.cls = "Substitutor"
    /\ V.mode = "done"
    /\ V.cfg.patrepls = <<SubRule>>
    /\ Resolve(heap, vroot) = SubTree
    /\ Resolve(heap, V.out) = BinOp(Num(IntV(1)), Add, Num(IntV(20)))
    /\ \E n \in 1..Len(V.log) : V.log[n].ev = "visit" /\ V.log[n].path = <<1>>
    /\ \A n \in 1..Len(V.log) : ~UpTo(<<3>>, V.log[n].path)

====
